---- MODULE Spec2Model ----
(***************************************************************************)
(* J1939 DTC parser library (dtc_parser/dtc_parser.c): the tracker of      *)
(* candidate and active DTCs, the BAM multi-frame reassembler, the DM1     *)
(* parser and the boolean gate that serialises the CAN interrupt and the   *)
(* main loop.                                                              *)
(***************************************************************************)
EXTENDS Integers, Naturals, Sequences, FiniteSets, TLC

(***************************************************************************)
(* Capacities.  The library's compile-time caps are scaled down so that    *)
(* the full-list and full-table cases are reached; the handlers only ever  *)
(* compare against them.                                                   *)
(***************************************************************************)
MAX_CANDIDATE_DTCS == 2

MAX_ACTIVE_DTCS == 2

MAX_CONCURRENT_MULTIFRAME == 2

MAX_MULTIFRAME_DATA_SIZE == 18

\* Largest timestamp the environment supplies in the general specification.
MaxTime == 2

\* read_count is capped by the environment (frames stop once a record got there).
MaxReadCount == 2

\* Calls in one run of the scenarios, the two of the set-up included.
MaxHist == 9

\* Frames in one run of the reassembly specification.
MaxFrames == 4

\* sizeof(DTC_Info_t): packed 6 + 4 + 4 + 2 bytes.
SIZEOF_DTC_INFO == 16

\* The seven uint32_t fields that precede data[] in MultiFrameMessage.
SLOT_HEADER_BYTES == 28

VARIABLES
    candidate_dtcs,               \* candidate_dtcs[0 .. candidate_dtcs_count-1], as a sequence
    active_dtcs,                  \* active_dtcs[0 .. active_dtcs_count-1], as a sequence
    multi_frame_messages,         \* the slot table, indices 1..MAX_CONCURRENT_MULTIFRAME
    updated_active_dtcs_callback, \* TRUE when a subscriber is registered (non-NULL)
    changed_dtc_list,
    dtc_mutex_taken,
    dtcParseCfg,
    mem_fault,                    \* whether a fragment was stored outside its data[] buffer
    last,                         \* the last completed call: its name, arguments, return value
    main,                         \* position of the main-loop call in progress (interrupt model)
    hist,                         \* the calls made so far (scenario specifications)
    notified                      \* the identities active when check_dtcs last returned true

vars == <<candidate_dtcs, active_dtcs, multi_frame_messages, updated_active_dtcs_callback,
          changed_dtc_list, dtc_mutex_taken, dtcParseCfg, mem_fault, last, main, hist, notified>>

libvars == <<candidate_dtcs, active_dtcs, multi_frame_messages, updated_active_dtcs_callback,
             changed_dtc_list, dtc_mutex_taken, dtcParseCfg, mem_fault>>

(***************************************************************************)
(* Fixed-width arithmetic.                                                 *)
(***************************************************************************)
Pow2(n) == 2 ^ n

BitsAt(x, lo, n) == (x \div Pow2(lo)) % Pow2(n)

\* (a - b) > w with a, b, w uint32_t and the difference wrapping modulo 2^32.
\* For a < b the difference is 2^32 - (b - a); 2^32 itself is not written out:
\* 2^32 - d > w  <=>  d + w < 2^32  <=>  (d + w) \div 4 < 2^30.
U32DiffGt(a, b, w) ==
    IF a >= b THEN (a - b) > w
    ELSE ((b - a) + w) \div 4 < 1073741824

U32DiffLe(a, b, w) == ~U32DiffGt(a, b, w)

(***************************************************************************)
(* Sequences as C arrays with a count.                                     *)
(***************************************************************************)
\* for (j = i; j < count - 1; ++j) list[j] = list[j + 1]; --count;   (i is 1-based here)
ShiftOut(list, i) == [j \in 1..(Len(list) - 1) |-> IF j < i THEN list[j] ELSE list[j + 1]]

Ident(d) == <<d.src, d.spn, d.fmi>>

Idents(list) == {Ident(list[i]) : i \in 1..Len(list)}

(***************************************************************************)
(* remove_inactive_dtcs: the two sweeps of the tick.                       *)
(***************************************************************************)
\* Variant: a candidate is dropped as soon as the window is reached (>= for >).
RECURSIVE SweepCandidates_ge(_, _, _, _)
SweepCandidates_ge(list, i, timestamp, window) ==
    IF i > Len(list) THEN list
    ELSE IF U32DiffGt(timestamp, list[i].first_seen, window)
            \/ timestamp - list[i].first_seen = window
         THEN SweepCandidates_ge(ShiftOut(list, i), i, timestamp, window)
         ELSE SweepCandidates_ge(list, i + 1, timestamp, window)

\* Variant: after a removal the loop goes on to the next index (no --i).
RECURSIVE SweepCandidates_skips_neighbour(_, _, _, _)
SweepCandidates_skips_neighbour(list, i, timestamp, window) ==
    IF i > Len(list) THEN list
    ELSE IF U32DiffGt(timestamp, list[i].first_seen, window)
         THEN SweepCandidates_skips_neighbour(ShiftOut(list, i), i + 1, timestamp, window)
         ELSE SweepCandidates_skips_neighbour(list, i + 1, timestamp, window)

RECURSIVE SweepCandidates(_, _, _, _)
SweepCandidates(list, i, timestamp, window) ==
    IF i > Len(list) THEN list
    ELSE IF U32DiffGt(timestamp, list[i].first_seen, window)
         THEN SweepCandidates(ShiftOut(list, i), i, timestamp, window)
         ELSE SweepCandidates(list, i + 1, timestamp, window)

\* Variant: an active DTC ages out as soon as the timeout is reached (>= for >).
RECURSIVE SweepActive_ge(_, _, _, _)
SweepActive_ge(list, i, timestamp, inactive) ==
    IF i > Len(list) THEN list
    ELSE IF U32DiffGt(timestamp, list[i].last_seen, inactive)
            \/ timestamp - list[i].last_seen = inactive
         THEN SweepActive_ge(ShiftOut(list, i), i, timestamp, inactive)
         ELSE SweepActive_ge(list, i + 1, timestamp, inactive)

RECURSIVE SweepActive(_, _, _, _)
SweepActive(list, i, timestamp, inactive) ==
    IF i > Len(list) THEN list
    ELSE IF U32DiffGt(timestamp, list[i].last_seen, inactive)
         THEN SweepActive(ShiftOut(list, i), i, timestamp, inactive)
         ELSE SweepActive(list, i + 1, timestamp, inactive)

\* State threaded through the private functions: the two lists and the flag.
Trk(c, a, ch) == [cand |-> c, act |-> a, changed |-> ch]

\* Variant: aging out an active DTC does not raise the changed flag.
remove_inactive_dtcs_silent(t, timestamp, cfg) ==
    Trk(SweepCandidates(t.cand, 1, timestamp, cfg.dtc_active_time_window),
        SweepActive(t.act, 1, timestamp, cfg.debounce_dtc_inactive_time),
        t.changed)

remove_inactive_dtcs(t, timestamp, cfg) ==
    LET c == SweepCandidates(t.cand, 1, timestamp, cfg.dtc_active_time_window)
        a == SweepActive(t.act, 1, timestamp, cfg.debounce_dtc_inactive_time)
    IN  Trk(c, a, t.changed \/ Len(a) < Len(t.act))

(***************************************************************************)
(* add_candidate_dtc, add_active_dtc, find_dtc, update_dtc_status.         *)
(***************************************************************************)
\* Variant: the bound test is off by one (<= instead of <).
add_candidate_dtc_off_by_one(t, d) ==
    IF Len(t.cand) <= MAX_CANDIDATE_DTCS
    THEN [t EXCEPT !.cand = Append(t.cand, d)]
    ELSE t

add_candidate_dtc(t, d) ==
    IF Len(t.cand) < MAX_CANDIDATE_DTCS
    THEN [t EXCEPT !.cand = Append(t.cand, d)]
    ELSE t

add_active_dtc(t, d) ==
    IF Len(t.act) < MAX_ACTIVE_DTCS
    THEN [t EXCEPT !.act = Append(t.act, d), !.changed = TRUE]
    ELSE t

\* Variant: the search stops one short of count and misses the last record.
find_dtc_misses_last(list, src, spn, fmi) ==
    LET hits == {i \in 1..(Len(list) - 1) :
                    list[i].src = src /\ list[i].spn = spn /\ list[i].fmi = fmi}
    IN  IF hits = {} THEN 0 ELSE CHOOSE i \in hits : \A j \in hits : i <= j

\* Index of the first record with the identity, 0 for NULL.
find_dtc(list, src, spn, fmi) ==
    LET hits == {i \in 1..Len(list) : list[i].src = src /\ list[i].spn = spn /\ list[i].fmi = fmi}
    IN  IF hits = {} THEN 0 ELSE CHOOSE i \in hits : \A j \in hits : i <= j

\* Variant: the time window is not tested.
RECURSIVE PromoteScan_ignores_window(_, _, _, _)
PromoteScan_ignores_window(t, i, timestamp, cfg) ==
    IF i > Len(t.cand) THEN t
    ELSE IF t.cand[i].read_count >= cfg.dtc_active_read_count
         THEN PromoteScan_ignores_window(
                  [add_active_dtc(t, t.cand[i]) EXCEPT !.cand = ShiftOut(t.cand, i)],
                  i, timestamp, cfg)
         ELSE PromoteScan_ignores_window(t, i + 1, timestamp, cfg)

\* Variant: a candidate that finds the active list full stays a candidate.
RECURSIVE PromoteScan_requeues_when_full(_, _, _, _)
PromoteScan_requeues_when_full(t, i, timestamp, cfg) ==
    IF i > Len(t.cand) THEN t
    ELSE IF /\ U32DiffLe(timestamp, t.cand[i].first_seen, cfg.dtc_active_time_window)
            /\ t.cand[i].read_count >= cfg.dtc_active_read_count
            /\ Len(t.act) < MAX_ACTIVE_DTCS
         THEN PromoteScan_requeues_when_full(
                  [add_active_dtc(t, t.cand[i]) EXCEPT !.cand = ShiftOut(t.cand, i)],
                  i, timestamp, cfg)
         ELSE PromoteScan_requeues_when_full(t, i + 1, timestamp, cfg)

\* The promotion loop at the end of update_dtc_status.
RECURSIVE PromoteScan(_, _, _, _)
PromoteScan(t, i, timestamp, cfg) ==
    IF i > Len(t.cand) THEN t
    ELSE IF /\ U32DiffLe(timestamp, t.cand[i].first_seen, cfg.dtc_active_time_window)
            /\ t.cand[i].read_count >= cfg.dtc_active_read_count
         THEN PromoteScan([add_active_dtc(t, t.cand[i]) EXCEPT !.cand = ShiftOut(t.cand, i)],
                          i, timestamp, cfg)
         ELSE PromoteScan(t, i + 1, timestamp, cfg)

\* One decoded record as update_dtc_status receives it.
Obs(src, spn, fmi, cm, oc, mil, rsl, awl, pl) ==
    [src |-> src, spn |-> spn, fmi |-> fmi, cm |-> cm, oc |-> oc,
     mil |-> mil, rsl |-> rsl, awl |-> awl, pl |-> pl]

\* The stores go through the bit-fields of DTC_t (oc:7, lamps:2, spn:19, fmi:5, cm:1).
\* Variant: the timestamp is stored in first_seen.
Refresh_stamps_first_seen(d, o, timestamp) ==
    [d EXCEPT !.oc = o.oc % 128, !.mil = o.mil % 4, !.rsl = o.rsl % 4, !.awl = o.awl % 4,
              !.pl = o.pl % 4, !.first_seen = timestamp]

Refresh(d, o, timestamp) ==
    [d EXCEPT !.oc = o.oc % 128, !.mil = o.mil % 4, !.rsl = o.rsl % 4, !.awl = o.awl % 4,
              !.pl = o.pl % 4, !.last_seen = timestamp]

\* Variant: a new candidate starts with read_count 0.
NewDtcInfo_count_from_zero(o, timestamp) ==
    [src |-> o.src % 256, spn |-> o.spn % Pow2(19), fmi |-> o.fmi % 32, cm |-> o.cm % 2,
     oc |-> o.oc % 128, mil |-> o.mil % 4, rsl |-> o.rsl % 4, awl |-> o.awl % 4,
     pl |-> o.pl % 4,
     first_seen |-> timestamp, last_seen |-> timestamp, read_count |-> 0]

NewDtcInfo(o, timestamp) ==
    [src |-> o.src % 256, spn |-> o.spn % Pow2(19), fmi |-> o.fmi % 32, cm |-> o.cm % 2,
     oc |-> o.oc % 128, mil |-> o.mil % 4, rsl |-> o.rsl % 4, awl |-> o.awl % 4,
     pl |-> o.pl % 4,
     first_seen |-> timestamp, last_seen |-> timestamp, read_count |-> 1]

\* update_dtc_status up to its promotion loop: the observed record is refreshed
\* where it is, or enters the candidate list.
Observe(t, timestamp, o) ==
    LET ia == find_dtc(t.act, o.src, o.spn, o.fmi)
        ic == find_dtc(t.cand, o.src, o.spn, o.fmi)
    IN  IF ia # 0
        THEN [t EXCEPT !.act[ia] = Refresh(@, o, timestamp)]
        ELSE IF ic # 0
             THEN [t EXCEPT !.cand[ic] =
                      [Refresh(@, o, timestamp) EXCEPT !.read_count = (@ + 1) % 65536]]
             ELSE add_candidate_dtc(t, NewDtcInfo(o, timestamp))

update_dtc_status(t, timestamp, o, cfg) ==
    PromoteScan(Observe(t, timestamp, o), 1, timestamp, cfg)

(***************************************************************************)
(* process_dm1_message: data is a C byte array, data[i] is Byte(data, i).  *)
(***************************************************************************)
Byte(data, i) == IF i < Len(data) THEN data[i + 1] ELSE 0

\* Variant: the two low SPN bytes taken most significant first.
DecodeSpn_big_endian(data, i) ==
    BitsAt(Byte(data, i + 2), 5, 3) * 65536 + Byte(data, i) * 256 + Byte(data, i + 1)

DecodeSpn(data, i) ==
    BitsAt(Byte(data, i + 2), 5, 3) * 65536 + Byte(data, i + 1) * 256 + Byte(data, i)

DecodeObs(can_id, data, i) ==
    Obs(can_id % 256,
        DecodeSpn(data, i),
        Byte(data, i + 2) % 32,
        BitsAt(Byte(data, i + 3), 7, 1),
        Byte(data, i + 3) % 128,
        BitsAt(Byte(data, 0), 6, 2),
        BitsAt(Byte(data, 0), 4, 2),
        BitsAt(Byte(data, 0), 2, 2),
        Byte(data, 0) % 4)

\* for (i = 2; i < length - 2; i += 4) update_dtc_status(...)
RECURSIVE Dm1Loop(_, _, _, _, _, _, _)
Dm1Loop(t, can_id, data, length, i, timestamp, cfg) ==
    IF i < length - 2
    THEN Dm1Loop(update_dtc_status(t, timestamp, DecodeObs(can_id, data, i), cfg),
                 can_id, data, length, i + 4, timestamp, cfg)
    ELSE t

\* Variant: without the test of the first record's SPN.
process_dm1_message_no_idle_guard(t, can_id, data, length, timestamp, cfg) ==
    IF length < 6 THEN t
    ELSE Dm1Loop(t, can_id, data, length, 2, timestamp, cfg)

process_dm1_message(t, can_id, data, length, timestamp, cfg) ==
    IF length < 6 THEN t
    ELSE IF DecodeSpn(data, 2) = 0 THEN t
    ELSE Dm1Loop(t, can_id, data, length, 2, timestamp, cfg)

\* The records a payload yields, in order (what the loop hands to update_dtc_status).
RECURSIVE Dm1Records(_, _, _, _)
Dm1Records(can_id, data, length, i) ==
    IF length < 6 \/ DecodeSpn(data, 2) = 0 THEN << >>
    ELSE IF i < length - 2
         THEN <<DecodeObs(can_id, data, i)>> \o Dm1Records(can_id, data, length, i + 4)
         ELSE << >>

(***************************************************************************)
(* The multi-frame reassembler.  Rsm threads the tracker, the slot table   *)
(* and the record of out-of-buffer stores through the handlers.            *)
(***************************************************************************)
FreeSlot ==
    [message_id |-> 0, message_id_tp_dt |-> 0, total_size |-> 0, num_packets |-> 0,
     received_packets |-> 0, first_seen |-> 0, last_seen |-> 0,
     data |-> [i \in 1..MAX_MULTIFRAME_DATA_SIZE |-> 0]]

Rsm(t, slots, fault) == [t |-> t, slots |-> slots, fault |-> fault]

SlotIndexes == 1..MAX_CONCURRENT_MULTIFRAME

FirstIndex(S) == IF S = {} THEN 0 ELSE CHOOSE i \in S : \A j \in S : i <= j

\* (message_id & 0xFF00FFFF) | 0x00EB0000
TpDtId(message_id) == message_id - BitsAt(message_id, 16, 8) * 65536 + 235 * 65536

\* Variant: an oversized announcement releases the slot that has its id.
handle_tp_cm_message_oversize_resets(slots, can_id, data, timestamp) ==
    LET message_id == can_id % Pow2(29)
        total_size == Byte(data, 2) * 256 + Byte(data, 1)
        num_packets == Byte(data, 3)
        same == FirstIndex({i \in SlotIndexes : slots[i].message_id = message_id})
        k == IF same # 0 THEN same
             ELSE FirstIndex({i \in SlotIndexes : slots[i].message_id = 0})
    IN  IF Byte(data, 0) # 32 THEN slots
        ELSE IF total_size > MAX_MULTIFRAME_DATA_SIZE
             THEN IF same # 0 THEN [slots EXCEPT ![same] = FreeSlot] ELSE slots
        ELSE IF k = 0 THEN slots
        ELSE [slots EXCEPT ![k] =
                [message_id |-> message_id, message_id_tp_dt |-> TpDtId(message_id),
                 total_size |-> total_size, num_packets |-> num_packets,
                 received_packets |-> 0, first_seen |-> timestamp, last_seen |-> timestamp,
                 data |-> FreeSlot.data]]

handle_tp_cm_message(slots, can_id, data, timestamp) ==
    LET message_id == can_id % Pow2(29)
        total_size == Byte(data, 2) * 256 + Byte(data, 1)
        num_packets == Byte(data, 3)
        same == FirstIndex({i \in SlotIndexes : slots[i].message_id = message_id})
        k == IF same # 0 THEN same
             ELSE FirstIndex({i \in SlotIndexes : slots[i].message_id = 0})
    IN  IF Byte(data, 0) # 32 THEN slots
        ELSE IF total_size > MAX_MULTIFRAME_DATA_SIZE THEN slots
        ELSE IF k = 0 THEN slots
        ELSE [slots EXCEPT ![k] =
                [message_id |-> message_id, message_id_tp_dt |-> TpDtId(message_id),
                 total_size |-> total_size, num_packets |-> num_packets,
                 received_packets |-> 0, first_seen |-> timestamp, last_seen |-> timestamp,
                 data |-> FreeSlot.data]]

\* The slots in use: if (multi_frame_messages[i].message_id)
Occupied(slots) == {i \in SlotIndexes : slots[i].message_id # 0}

find_multi_frame_message(slots, message_id_tp_dt) ==
    FirstIndex({i \in SlotIndexes : slots[i].message_id_tp_dt = message_id_tp_dt})

\* Variant: the slot is left as it is.
remove_multi_frame_message_keeps(slots, message_id_tp_dt) == slots

remove_multi_frame_message(slots, message_id_tp_dt) ==
    LET k == find_multi_frame_message(slots, message_id_tp_dt)
    IN  IF k = 0 THEN slots ELSE [slots EXCEPT ![k] = FreeSlot]

\* The table as bytes: MAX_CONCURRENT_MULTIFRAME structs of header, data[] and the
\* padding that rounds the struct up to its 4-byte alignment.
SlotFields ==
    <<"message_id", "message_id_tp_dt", "total_size", "num_packets", "received_packets",
      "first_seen", "last_seen">>

SlotBytes == 4 * ((SLOT_HEADER_BYTES + MAX_MULTIFRAME_DATA_SIZE + 3) \div 4)

TableBytes == MAX_CONCURRENT_MULTIFRAME * SlotBytes

\* x with its byte k (0 the least significant) replaced by b.
SetByte(x, k, b) == x - BitsAt(x, 8 * k, 8) * Pow2(8 * k) + b * Pow2(8 * k)

\* Byte w of a slot set to b: a header field, data[], or padding.
PokeSlot(slot, w, b) ==
    IF w < SLOT_HEADER_BYTES
    THEN [slot EXCEPT ![SlotFields[w \div 4 + 1]] = SetByte(@, w % 4, b)]
    ELSE IF w < SLOT_HEADER_BYTES + MAX_MULTIFRAME_DATA_SIZE
    THEN [slot EXCEPT !.data[w - SLOT_HEADER_BYTES + 1] = b]
    ELSE slot

\* Where byte j of memcpy(&message->data[offset], &data[1], 7) lands, counted from
\* the start of the table, for the message in slot m.  Nothing checks offset
\* against the size of data[].
FragmentAddr(m, offset, j) == (m - 1) * SlotBytes + SLOT_HEADER_BYTES + offset + j

\* The bytes of the memcpy that land inside the table: in data[] of slot m, or,
\* past its end, in the slots that follow it.
RECURSIVE StoreFragment(_, _, _, _, _)
StoreFragment(slots, m, offset, data, j) ==
    IF j > 6 THEN slots
    ELSE LET a == FragmentAddr(m, offset, j)
         IN  StoreFragment(
                 IF a < TableBytes
                 THEN [slots EXCEPT ![a \div SlotBytes + 1] =
                          PokeSlot(@, a % SlotBytes, Byte(data, j + 1))]
                 ELSE slots,
                 m, offset, data, j + 1)

\* The bytes of the memcpy that land past the end of the table, each with its
\* distance from the end.
Spill(m, offset, data) ==
    {<<FragmentAddr(m, offset, j) - TableBytes, Byte(data, j + 1)>> :
        j \in {k \in 0..6 : FragmentAddr(m, offset, k) >= TableBytes}}

\* What is recorded of the stores made outside data[].
NoFault == [kind |-> "none", spill |-> {}]

FaultAfter(fault, m, offset, data) ==
    IF Spill(m, offset, data) # {}
    THEN [kind |-> "past_table", spill |-> Spill(m, offset, data)]
    ELSE IF offset + 7 > MAX_MULTIFRAME_DATA_SIZE /\ fault.kind = "none"
    THEN [kind |-> "next_slot", spill |-> {}]
    ELSE fault

\* Variant: a fragment out of order is ignored and the slot kept.
handle_tp_dt_message_keeps_slot(r, can_id, data, timestamp, cfg) ==
    LET message_id == can_id % Pow2(29)
        m == find_multi_frame_message(r.slots, message_id)
        packet_number == Byte(data, 0)
        offset == (packet_number - 1) * 7
        stored == [StoreFragment(r.slots, m, offset, data, 0) EXCEPT
                      ![m].received_packets = @ + 1, ![m].last_seen = timestamp]
        msg == stored[m]
        fault == FaultAfter(r.fault, m, offset, data)
    IN  IF m = 0 THEN r
        ELSE IF packet_number # r.slots[m].received_packets + 1 THEN r
        ELSE IF fault.kind = "past_table" THEN Rsm(r.t, stored, fault)
        ELSE IF msg.received_packets = msg.num_packets
             THEN Rsm(process_dm1_message(r.t, message_id, msg.data, msg.total_size,
                                          timestamp, cfg),
                      remove_multi_frame_message(stored, message_id), fault)
        ELSE Rsm(r.t, stored, fault)

handle_tp_dt_message(r, can_id, data, timestamp, cfg) ==
    LET message_id == can_id % Pow2(29)
        m == find_multi_frame_message(r.slots, message_id)
        packet_number == Byte(data, 0)
        offset == (packet_number - 1) * 7
        stored == [StoreFragment(r.slots, m, offset, data, 0) EXCEPT
                      ![m].received_packets = @ + 1, ![m].last_seen = timestamp]
        msg == stored[m]
        fault == FaultAfter(r.fault, m, offset, data)
    IN  IF m = 0 THEN r
        ELSE IF packet_number # r.slots[m].received_packets + 1
             THEN Rsm(r.t, remove_multi_frame_message(r.slots, message_id), r.fault)
        ELSE IF fault.kind = "past_table"
             \* The store left the table: what it hit depends on the build
             \* (PastTable), and the rest of the call is not followed.
             THEN Rsm(r.t, stored, fault)
        ELSE IF msg.received_packets = msg.num_packets
             THEN Rsm(process_dm1_message(r.t, message_id, msg.data, msg.total_size,
                                          timestamp, cfg),
                      remove_multi_frame_message(stored, message_id), fault)
        ELSE Rsm(r.t, stored, fault)

\* Variant: the age of a slot is counted from first_seen.
remove_incomplete_multi_frame_message_by_first_seen(slots, timestamp, cfg) ==
    [i \in SlotIndexes |->
        IF slots[i].message_id # 0
           /\ U32DiffGt(timestamp, slots[i].first_seen, cfg.timeout_multi_frame)
        THEN FreeSlot ELSE slots[i]]

\* Variant: only a slot that still expects packets is aged.
remove_incomplete_multi_frame_message_expecting(slots, timestamp, cfg) ==
    [i \in SlotIndexes |->
        IF slots[i].message_id # 0
           /\ slots[i].received_packets < slots[i].num_packets
           /\ U32DiffGt(timestamp, slots[i].last_seen, cfg.timeout_multi_frame)
        THEN FreeSlot ELSE slots[i]]

remove_incomplete_multi_frame_message(slots, timestamp, cfg) ==
    [i \in SlotIndexes |->
        IF slots[i].message_id # 0
           /\ U32DiffGt(timestamp, slots[i].last_seen, cfg.timeout_multi_frame)
        THEN FreeSlot ELSE slots[i]]

(***************************************************************************)
(* The gate and the configuration.                                         *)
(***************************************************************************)
\* Variant: the flag is not tested.
take_dtc_mutex_ignores_flag(taken) == [ok |-> TRUE, taken |-> TRUE]

\* take_dtc_mutex: ok is the return value, taken the flag afterwards.
take_dtc_mutex(taken) == [ok |-> ~taken, taken |-> TRUE]

\* give_dtc_mutex: the flag afterwards.
give_dtc_mutex(taken) == FALSE

DefaultCfg ==
    [dtc_active_read_count |-> 10, dtc_active_time_window |-> 10,
     debounce_dtc_inactive_time |-> 20, timeout_multi_frame |-> 5]

\* Variant: every argument is stored, zero included.
FilteringAfter_stores_zero(cfg, rc, tw, it, tmf) ==
    [dtc_active_read_count |-> rc, dtc_active_time_window |-> tw,
     debounce_dtc_inactive_time |-> it, timeout_multi_frame |-> tmf]

FilteringAfter(cfg, rc, tw, it, tmf) ==
    [dtc_active_read_count |-> IF rc > 0 THEN rc ELSE cfg.dtc_active_read_count,
     dtc_active_time_window |-> IF tw > 0 THEN tw ELSE cfg.dtc_active_time_window,
     debounce_dtc_inactive_time |-> IF it > 0 THEN it ELSE cfg.debounce_dtc_inactive_time,
     timeout_multi_frame |-> IF tmf > 0 THEN tmf ELSE cfg.timeout_multi_frame]

(***************************************************************************)
(* The bodies the public functions run between take and give.              *)
(***************************************************************************)
Cur == Rsm(Trk(candidate_dtcs, active_dtcs, changed_dtc_list), multi_frame_messages, mem_fault)

Install(r) ==
    /\ candidate_dtcs' = r.t.cand
    /\ active_dtcs' = r.t.act
    /\ changed_dtc_list' = r.t.changed
    /\ multi_frame_messages' = r.slots
    /\ mem_fault' = r.fault

\* Variant: every TP.CM frame goes to the reassembler, whatever its PGN.
FrameBody_any_pgn(r, can_id, data, timestamp, cfg) ==
    IF BitsAt(can_id, 8, 16) = 65226
    THEN Rsm(process_dm1_message(r.t, can_id, data, 8, timestamp, cfg), r.slots, r.fault)
    ELSE IF BitsAt(can_id, 16, 8) = 236
    THEN Rsm(r.t, handle_tp_cm_message(r.slots, can_id, data, timestamp), r.fault)
    ELSE IF BitsAt(can_id, 16, 8) = 235
    THEN handle_tp_dt_message(r, can_id, data, timestamp, cfg)
    ELSE r

\* process_dtc_frame between take and give: the classifier.
FrameBody(r, can_id, data, timestamp, cfg) ==
    IF BitsAt(can_id, 8, 16) = 65226
    THEN Rsm(process_dm1_message(r.t, can_id, data, 8, timestamp, cfg), r.slots, r.fault)
    ELSE IF BitsAt(can_id, 16, 8) = 236
    THEN IF Byte(data, 7) * 65536 + Byte(data, 6) * 256 + Byte(data, 5) = 65226
            /\ Byte(data, 0) = 32
         THEN Rsm(r.t, handle_tp_cm_message(r.slots, can_id, data, timestamp), r.fault)
         ELSE r
    ELSE IF BitsAt(can_id, 16, 8) = 235
    THEN handle_tp_dt_message(r, can_id, data, timestamp, cfg)
    ELSE r

\* check_dtcs between take and the test of changed_dtc_list.
CheckAging(r, timestamp, cfg) ==
    Rsm(remove_inactive_dtcs(r.t, timestamp, cfg),
        remove_incomplete_multi_frame_message(r.slots, timestamp, cfg), r.fault)

\* Variant: the slot table is not zeroed.
ClearBody_keeps_slots(r) == Rsm(Trk(<< >>, << >>, r.t.changed), r.slots, r.fault)

\* clear_dtcs between take and give.
ClearBody(r) == Rsm(Trk(<< >>, << >>, r.t.changed), [i \in SlotIndexes |-> FreeSlot], r.fault)

\* uint16_t dtcRequiredBufSize = active_dtcs_count * sizeof(DTC_Info_t)
RequiredBufSize(count) == (count * SIZEOF_DTC_INFO) % 65536

\* What is kept of a finished call: its name, whether it obtained the gate, its
\* return value, whether it invoked the callback, where the main loop stood, and
\* the two counts as the call found them.
Done(op, timestamp, took, ret, cb) ==
    [op |-> op, took |-> took, ret |-> ret, cb |-> cb, at |-> main.pc,
     n_active |-> Len(active_dtcs), n_candidate |-> Len(candidate_dtcs)]

(***************************************************************************)
(* A fragment stored past the end of multi_frame_messages lands in the     *)
(* static object the build placed behind the table.  Two placements are    *)
(* followed: the objects in declaration order (gcc -O0: the callback       *)
(* pointer, changed_dtc_list, dtc_mutex_taken) and active_dtcs_count       *)
(* behind the table (gcc -O2).  Only the first eight bytes past the table  *)
(* are followed, and no call is followed after such a store.               *)
(***************************************************************************)
ZeroInfo ==
    [src |-> 0, spn |-> 0, fmi |-> 0, cm |-> 0, oc |-> 0, mil |-> 0, rsl |-> 0, awl |-> 0,
     pl |-> 0, first_seen |-> 0, last_seen |-> 0, read_count |-> 0]

SpillByte(spill, k, old) ==
    IF \E b \in spill : b[1] = k THEN (CHOOSE b \in spill : b[1] = k)[2] ELSE old

\* The pointer after the store: non-NULL once a non-zero byte is in it.
PointerAfter(callback, spill) ==
    IF \E b \in spill : b[1] < 8 /\ b[2] # 0 THEN {TRUE}
    ELSE IF \A k \in 0..7 : \E b \in spill : b[1] = k THEN {FALSE}
    ELSE IF callback THEN BOOLEAN
    ELSE {FALSE}

\* active_dtcs_count (size_t, little-endian) after the store, kept up to one past
\* the cap: a larger count is followed as MAX_ACTIVE_DTCS + 1 records.
CountAfter(count, spill) ==
    LET low == SpillByte(spill, 0, count % 256)
                 + 256 * SpillByte(spill, 1, (count \div 256) % 256)
                 + 65536 * SpillByte(spill, 2, (count \div 65536) % 256)
    IN  IF \E b \in spill : b[1] \in 3..7 /\ b[2] # 0 THEN MAX_ACTIVE_DTCS + 1
        ELSE IF low > MAX_ACTIVE_DTCS THEN MAX_ACTIVE_DTCS + 1
        ELSE low

\* active_dtcs[0 .. n-1] for a count n the library did not set: past the old
\* count the array holds zeroes or records left behind, and past the array lies
\* other memory.
ActiveAfter(act, cand, n) ==
    IF n <= Len(act) THEN {SubSeq(act, 1, n)}
    ELSE {act \o g : g \in [1..(n - Len(act)) ->
                                {ZeroInfo} \cup {act[i] : i \in 1..Len(act)}
                                           \cup {cand[i] : i \in 1..Len(cand)}]}

PastTable(r) ==
    /\ candidate_dtcs' = r.t.cand
    /\ multi_frame_messages' = r.slots
    /\ mem_fault' = r.fault
    /\ \/ /\ updated_active_dtcs_callback' \in
                 PointerAfter(updated_active_dtcs_callback, r.fault.spill)
          /\ changed_dtc_list' = (SpillByte(r.fault.spill, 8, IF r.t.changed THEN 1 ELSE 0) # 0)
          /\ active_dtcs' = r.t.act
       \/ /\ active_dtcs' \in ActiveAfter(r.t.act, r.t.cand,
                                           CountAfter(Len(r.t.act), r.fault.spill))
          /\ changed_dtc_list' = r.t.changed
          /\ UNCHANGED updated_active_dtcs_callback

\* No call is followed once a fragment was stored past the table.
Running == mem_fault.kind # "past_table"

(***************************************************************************)
(* The public functions, each as one call that runs to completion.         *)
(***************************************************************************)
\* Variant: give_dtc_mutex() placed after the if, so that a frame that did not
\* obtain the gate releases it.
process_dtc_frame_gives_anyway(can_id, data, timestamp) ==
    LET g == take_dtc_mutex(dtc_mutex_taken)
        r == FrameBody(Cur, can_id, data, timestamp, dtcParseCfg)
    IN  /\ IF g.ok
           THEN IF r.fault.kind = "past_table"
                THEN PastTable(r)
                ELSE Install(r) /\ UNCHANGED updated_active_dtcs_callback
           ELSE UNCHANGED <<candidate_dtcs, active_dtcs, changed_dtc_list,
                            multi_frame_messages, mem_fault, updated_active_dtcs_callback>>
        /\ dtc_mutex_taken' = give_dtc_mutex(g.taken)
        /\ last' = Done("process_dtc_frame", timestamp, g.ok, FALSE, FALSE)
        /\ UNCHANGED dtcParseCfg

process_dtc_frame(can_id, data, timestamp) ==
    LET g == take_dtc_mutex(dtc_mutex_taken)
        r == FrameBody(Cur, can_id, data, timestamp, dtcParseCfg)
    IN  /\ IF g.ok
           THEN /\ IF r.fault.kind = "past_table"
                   THEN PastTable(r)
                   ELSE Install(r) /\ UNCHANGED updated_active_dtcs_callback
                /\ dtc_mutex_taken' = give_dtc_mutex(g.taken)
           ELSE /\ UNCHANGED <<candidate_dtcs, active_dtcs, changed_dtc_list,
                               multi_frame_messages, mem_fault,
                               updated_active_dtcs_callback>>
                /\ dtc_mutex_taken' = dtc_mutex_taken
        /\ last' = Done("process_dtc_frame", timestamp, g.ok, FALSE, FALSE)
        /\ UNCHANGED dtcParseCfg

\* Variant: without a registered subscriber the flag is kept and false returned.
check_dtcs_needs_subscriber(timestamp) ==
    LET g == take_dtc_mutex(dtc_mutex_taken)
        r == CheckAging(Cur, timestamp, dtcParseCfg)
        told == r.t.changed /\ updated_active_dtcs_callback
    IN  /\ IF g.ok
           THEN /\ Install([r EXCEPT !.t.changed = r.t.changed /\ ~told])
                /\ dtc_mutex_taken' = give_dtc_mutex(g.taken)
                /\ last' = Done("check_dtcs", timestamp, TRUE, told, told)
           ELSE /\ UNCHANGED <<candidate_dtcs, active_dtcs, changed_dtc_list,
                               multi_frame_messages, mem_fault>>
                /\ dtc_mutex_taken' = dtc_mutex_taken
                /\ last' = Done("check_dtcs", timestamp, FALSE, FALSE, FALSE)
        /\ UNCHANGED <<updated_active_dtcs_callback, dtcParseCfg>>

\* Variant: a call that finds the gate taken clears the flag all the same.
check_dtcs_forgets_on_contention(timestamp) ==
    LET g == take_dtc_mutex(dtc_mutex_taken)
        r == CheckAging(Cur, timestamp, dtcParseCfg)
    IN  /\ IF g.ok
           THEN /\ Install([r EXCEPT !.t.changed = FALSE])
                /\ dtc_mutex_taken' = give_dtc_mutex(g.taken)
                /\ last' = Done("check_dtcs", timestamp, TRUE, r.t.changed,
                                r.t.changed /\ updated_active_dtcs_callback)
           ELSE /\ changed_dtc_list' = FALSE
                /\ UNCHANGED <<candidate_dtcs, active_dtcs, multi_frame_messages, mem_fault>>
                /\ dtc_mutex_taken' = dtc_mutex_taken
                /\ last' = Done("check_dtcs", timestamp, FALSE, FALSE, FALSE)
        /\ UNCHANGED <<updated_active_dtcs_callback, dtcParseCfg>>

check_dtcs(timestamp) ==
    LET g == take_dtc_mutex(dtc_mutex_taken)
        r == CheckAging(Cur, timestamp, dtcParseCfg)
    IN  /\ IF g.ok
           THEN /\ Install([r EXCEPT !.t.changed = FALSE])
                /\ dtc_mutex_taken' = give_dtc_mutex(g.taken)
                /\ last' = Done("check_dtcs", timestamp, TRUE, r.t.changed,
                                r.t.changed /\ updated_active_dtcs_callback)
           ELSE /\ UNCHANGED <<candidate_dtcs, active_dtcs, changed_dtc_list,
                               multi_frame_messages, mem_fault>>
                /\ dtc_mutex_taken' = dtc_mutex_taken
                /\ last' = Done("check_dtcs", timestamp, FALSE, FALSE, FALSE)
        /\ UNCHANGED <<updated_active_dtcs_callback, dtcParseCfg>>

clear_dtcs ==
    LET g == take_dtc_mutex(dtc_mutex_taken)
    IN  /\ IF g.ok
           THEN /\ Install(ClearBody(Cur))
                /\ dtc_mutex_taken' = give_dtc_mutex(g.taken)
           ELSE /\ UNCHANGED <<candidate_dtcs, active_dtcs, changed_dtc_list,
                               multi_frame_messages, mem_fault>>
                /\ dtc_mutex_taken' = dtc_mutex_taken
        /\ last' = Done("clear_dtcs", 0, g.ok, FALSE, FALSE)
        /\ UNCHANGED <<updated_active_dtcs_callback, dtcParseCfg>>

\* The flag copy_dtcs leaves behind: give_dtc_mutex is called on the success path only.
CopyGate(taken, buf_size, count) ==
    LET g == take_dtc_mutex(taken)
    IN  IF ~g.ok THEN taken
        ELSE IF buf_size >= RequiredBufSize(count) THEN give_dtc_mutex(g.taken)
        ELSE g.taken

copy_dtcs(buf_size) ==
    LET g == take_dtc_mutex(dtc_mutex_taken)
        fits == buf_size >= RequiredBufSize(Len(active_dtcs))
    IN  /\ dtc_mutex_taken' = CopyGate(dtc_mutex_taken, buf_size, Len(active_dtcs))
        /\ last' = Done("copy_dtcs", 0, g.ok, g.ok /\ fits, FALSE)
        /\ UNCHANGED <<candidate_dtcs, active_dtcs, changed_dtc_list, multi_frame_messages,
                       mem_fault, updated_active_dtcs_callback, dtcParseCfg>>

\* Variant: give_dtc_mutex() is called whether or not the gate was obtained.
dynamic_copy_dtcs_gives_anyway(malloc_ok) ==
    LET g == take_dtc_mutex(dtc_mutex_taken)
    IN  /\ dtc_mutex_taken' = give_dtc_mutex(g.taken)
        /\ last' = Done("dynamic_copy_dtcs", 0, g.ok, g.ok /\ malloc_ok, FALSE)
        /\ UNCHANGED <<candidate_dtcs, active_dtcs, changed_dtc_list, multi_frame_messages,
                       mem_fault, updated_active_dtcs_callback, dtcParseCfg>>

\* malloc_ok: whether malloc returned a non-NULL pointer.
dynamic_copy_dtcs(malloc_ok) ==
    LET g == take_dtc_mutex(dtc_mutex_taken)
    IN  /\ dtc_mutex_taken' = IF g.ok THEN give_dtc_mutex(g.taken) ELSE dtc_mutex_taken
        /\ last' = Done("dynamic_copy_dtcs", 0, g.ok, g.ok /\ malloc_ok, FALSE)
        /\ UNCHANGED <<candidate_dtcs, active_dtcs, changed_dtc_list, multi_frame_messages,
                       mem_fault, updated_active_dtcs_callback, dtcParseCfg>>

set_dtc_filtering(rc, tw, it, tmf) ==
    /\ dtcParseCfg' = FilteringAfter(dtcParseCfg, rc, tw, it, tmf)
    /\ last' = Done("set_dtc_filtering", 0, FALSE, FALSE, FALSE)
    /\ UNCHANGED <<candidate_dtcs, active_dtcs, changed_dtc_list, multi_frame_messages,
                   mem_fault, updated_active_dtcs_callback, dtc_mutex_taken>>

register_dtc_updated_callback(callback) ==
    /\ updated_active_dtcs_callback' = callback
    /\ last' = Done("register_dtc_updated_callback", 0, FALSE, FALSE, FALSE)
    /\ UNCHANGED <<candidate_dtcs, active_dtcs, changed_dtc_list, multi_frame_messages,
                   mem_fault, dtcParseCfg, dtc_mutex_taken>>

\* A user section: take_dtc_mutex ... give_dtc_mutex around get_reference_to_dtcs.
Idle == [pc |-> "idle", op |-> "none", ts |-> 0, arg |-> 0, ret |-> FALSE, cb |-> FALSE]

UserTake ==
    LET g == take_dtc_mutex(dtc_mutex_taken)
    IN  /\ Running
        /\ main.pc = "idle"
        /\ dtc_mutex_taken' = IF g.ok THEN g.taken ELSE dtc_mutex_taken
        /\ main' = IF g.ok THEN [Idle EXCEPT !.pc = "user"] ELSE main
        /\ last' = Done("take_dtc_mutex", 0, g.ok, g.ok, FALSE)
        /\ UNCHANGED <<candidate_dtcs, active_dtcs, changed_dtc_list, multi_frame_messages,
                       mem_fault, updated_active_dtcs_callback, dtcParseCfg, hist, notified>>

UserGive ==
    /\ main.pc = "user"
    /\ dtc_mutex_taken' = give_dtc_mutex(dtc_mutex_taken)
    /\ main' = Idle
    /\ last' = Done("give_dtc_mutex", 0, FALSE, FALSE, FALSE)
    /\ UNCHANGED <<candidate_dtcs, active_dtcs, changed_dtc_list, multi_frame_messages,
                   mem_fault, updated_active_dtcs_callback, dtcParseCfg, hist, notified>>

(***************************************************************************)
(* The main-loop calls statement by statement, for the interrupt model:    *)
(* main.pc is the statement the main loop is about to run, and the CAN     *)
(* interrupt (process_dtc_frame, run to completion) may come between any   *)
(* two of them.  take_dtc_mutex is two statements: the test of             *)
(* dtc_mutex_taken and the store to it.                                    *)
(***************************************************************************)
MainOps == {"check_dtcs", "clear_dtcs", "copy_dtcs", "dynamic_copy_dtcs", "take_dtc_mutex"}

\* The call is made; arg is buf_size for copy_dtcs and malloc's success (1) or
\* failure (0) for dynamic_copy_dtcs.
MainCall(calls) ==
    \E c \in calls :
        /\ Running
        /\ main.pc = "idle"
        /\ main' = [Idle EXCEPT !.pc = "test", !.op = c.op, !.ts = c.ts, !.arg = c.arg]
        /\ UNCHANGED <<libvars, last, hist, notified>>

\* if (dtc_mutex_taken) return false;
MainTest ==
    /\ main.pc = "test"
    /\ IF take_dtc_mutex(dtc_mutex_taken).ok
       THEN main' = [main EXCEPT !.pc = "set"] /\ UNCHANGED last
       ELSE main' = Idle /\ last' = Done(main.op, main.ts, FALSE, FALSE, FALSE)
    /\ UNCHANGED <<libvars, hist, notified>>

\* dtc_mutex_taken = true; return true;
MainSet ==
    /\ main.pc = "set"
    /\ dtc_mutex_taken' = take_dtc_mutex(dtc_mutex_taken).taken
    /\ IF main.op = "take_dtc_mutex"
       THEN main' = [main EXCEPT !.pc = "user"] /\ last' = Done(main.op, 0, TRUE, TRUE, FALSE)
       ELSE main' = [main EXCEPT !.pc = "body"] /\ UNCHANGED last
    /\ UNCHANGED <<candidate_dtcs, active_dtcs, changed_dtc_list, multi_frame_messages,
                   mem_fault, updated_active_dtcs_callback, dtcParseCfg, hist, notified>>

\* The statements between take and give, up to the callback of check_dtcs and
\* up to the return of copy_dtcs that skips give_dtc_mutex.
MainBody ==
    /\ main.pc = "body"
    /\ CASE main.op = "check_dtcs" ->
              LET r == CheckAging(Cur, main.ts, dtcParseCfg)
              IN  /\ Install(r)
                  /\ main' = [main EXCEPT !.pc = IF r.t.changed THEN "notify" ELSE "give"]
                  /\ UNCHANGED <<last, dtc_mutex_taken>>
         [] main.op = "clear_dtcs" ->
              /\ Install(ClearBody(Cur))
              /\ main' = [main EXCEPT !.pc = "give"]
              /\ UNCHANGED <<last, dtc_mutex_taken>>
         [] main.op = "copy_dtcs" ->
              /\ UNCHANGED <<candidate_dtcs, active_dtcs, changed_dtc_list,
                             multi_frame_messages, mem_fault>>
              /\ dtc_mutex_taken' = CopyGate(FALSE, main.arg, Len(active_dtcs))
              /\ IF main.arg >= RequiredBufSize(Len(active_dtcs))
                 THEN main' = Idle /\ last' = Done(main.op, 0, TRUE, TRUE, FALSE)
                 ELSE main' = Idle /\ last' = Done(main.op, 0, TRUE, FALSE, FALSE)
         [] main.op = "dynamic_copy_dtcs" ->
              /\ UNCHANGED <<candidate_dtcs, active_dtcs, changed_dtc_list,
                             multi_frame_messages, mem_fault, last, dtc_mutex_taken>>
              /\ main' = [main EXCEPT !.pc = "give", !.ret = (main.arg # 0)]
    /\ UNCHANGED <<updated_active_dtcs_callback, dtcParseCfg, hist, notified>>

\* if (changed_dtc_list) { callback, if one is registered; changed_dtc_list = false; }
MainNotify ==
    /\ main.pc = "notify"
    /\ changed_dtc_list' = FALSE
    /\ main' = [main EXCEPT !.pc = "give", !.ret = TRUE, !.cb = updated_active_dtcs_callback]
    /\ UNCHANGED <<candidate_dtcs, active_dtcs, multi_frame_messages, mem_fault,
                   updated_active_dtcs_callback, dtc_mutex_taken, dtcParseCfg, last, hist, notified>>

\* give_dtc_mutex(); return ret;
MainGive ==
    /\ main.pc = "give"
    /\ dtc_mutex_taken' = give_dtc_mutex(dtc_mutex_taken)
    /\ main' = Idle
    /\ last' = Done(main.op, main.ts, TRUE, main.ret, main.cb)
    /\ UNCHANGED <<candidate_dtcs, active_dtcs, changed_dtc_list, multi_frame_messages,
                   mem_fault, updated_active_dtcs_callback, dtcParseCfg, hist, notified>>

(***************************************************************************)
(* The environment: the frames on the bus, the timestamps and the          *)
(* arguments the application passes.                                       *)
(***************************************************************************)
Times == 0..MaxTime

Frame(id, data) == [id |-> id, data |-> data]

\* DM1 single frames from source 0x03 (0x18FECA03): SPN 1 / FMI 5, SPN 2 / FMI 5,
\* and the idle frame (SPN 0).
Dm1A == Frame(419351043, <<255, 0, 1, 0, 5, 0, 2, 0>>)

Dm1B == Frame(419351043, <<255, 0, 2, 0, 5, 1, 255, 255>>)

Dm1Idle == Frame(419351043, <<0, 0, 0, 0, 0, 0, 255, 255>>)

\* SPN 1 / FMI 5 again with other lamps, cm = 1, oc = 3; and from source 0x04.
Dm1A2 == Frame(419351043, <<84, 0, 1, 0, 5, 131, 255, 255>>)

Dm1C == Frame(419351044, <<255, 0, 1, 0, 5, 0, 2, 0>>)

\* A frame of another PGN (0x18FEF100).
OtherFrame == Frame(419361024, <<1, 2, 3, 4, 5, 6, 7, 8>>)

\* TP.CM on 0x1CECFF00: BAM of 12 bytes in 2 packets,
\* and TP.DT packets 1 and 2 on 0x1CEBFF00.
BamX == Frame(485293824, <<32, 12, 0, 2, 255, 202, 254, 0>>)

DtX1 == Frame(485228288, <<1, 255, 0, 1, 0, 5, 0, 2>>)

DtX2 == Frame(485228288, <<2, 0, 0, 0, 0, 0, 0, 0>>)

\* The same from sources 0x03 and 0x04 (0x1CECFF03, 0x1CECFF04), 10 bytes in 2 packets.
BamY == Frame(485293827, <<32, 10, 0, 2, 255, 202, 254, 0>>)

\* The payload carries SPN 1 / FMI 5 and SPN 2 / FMI 5 (the DTCs of Dm1A and Dm1B).
DtY1 == Frame(485228291, <<1, 255, 0, 1, 0, 5, 0, 2>>)

DtY2 == Frame(485228291, <<2, 0, 5, 1, 255, 255, 255, 255>>)

BamZ == Frame(485293828, <<32, 10, 0, 2, 255, 202, 254, 0>>)

\* From source 0x04 again: MAX_MULTIFRAME_DATA_SIZE bytes (18 here) in 3 packets; the
\* third packet carries the last 4 bytes and 3 bytes of padding.
BamFull == Frame(485293828, <<32, 18, 0, 3, 255, 202, 254, 0>>)

DtZ3 == Frame(485228292, <<3, 0, 0, 0, 0, 255, 255, 255>>)

\* Its payload carries the same two DTCs, from source 0x04.
DtZ1 == Frame(485228292, <<1, 255, 0, 1, 0, 5, 0, 2>>)

DtZ2 == Frame(485228292, <<2, 0, 5, 1, 255, 255, 255, 255>>)

\* A BAM of 256 bytes (more than the buffer holds) and a BAM for PGN 0xFEE3.
BamBig == Frame(485293824, <<32, 0, 1, 37, 255, 202, 254, 0>>)

BamOtherPgn == Frame(485293824, <<32, 12, 0, 2, 255, 227, 254, 0>>)

\* The environment stops repeating a DTC once its read_count reached the cap.
ReadCountBounded(list) == \A i \in 1..Len(list) : list[i].read_count <= MaxReadCount

Init ==
    /\ candidate_dtcs = << >>
    /\ active_dtcs = << >>
    /\ multi_frame_messages = [i \in SlotIndexes |-> FreeSlot]
    /\ updated_active_dtcs_callback = FALSE
    /\ changed_dtc_list = FALSE
    /\ dtc_mutex_taken = FALSE
    /\ dtcParseCfg = DefaultCfg
    /\ mem_fault = NoFault
    /\ main = Idle
    /\ last = Done("init", 0, FALSE, FALSE, FALSE)
    /\ hist = << >>
    /\ notified = {}

FrameArrives(frames, times) ==
    \E f \in frames, timestamp \in times :
        /\ Running
        /\ process_dtc_frame(f.id, f.data, timestamp)
        /\ ReadCountBounded(candidate_dtcs')
        /\ UNCHANGED <<main, hist, notified>>

Tick(times) ==
    \E timestamp \in times : Running /\ check_dtcs(timestamp) /\ UNCHANGED <<main, hist, notified>>

Clear == Running /\ clear_dtcs /\ UNCHANGED <<main, hist, notified>>

Copy(sizes) ==
    \E buf_size \in sizes : Running /\ copy_dtcs(buf_size) /\ UNCHANGED <<main, hist, notified>>

DynamicCopy ==
    \E malloc_ok \in BOOLEAN :
        Running /\ dynamic_copy_dtcs(malloc_ok) /\ UNCHANGED <<main, hist, notified>>

SetFiltering(args) ==
    \E a \in args :
        Running /\ set_dtc_filtering(a[1], a[2], a[3], a[4]) /\ UNCHANGED <<main, hist, notified>>

Register ==
    \E callback \in BOOLEAN :
        Running /\ register_dtc_updated_callback(callback) /\ UNCHANGED <<main, hist, notified>>

(***************************************************************************)
(* Spec: the tracker under single DM1 frames, ticks, clear_dtcs and        *)
(* set_dtc_filtering, every call running to completion.                    *)
(***************************************************************************)
Frames == {Dm1A, Dm1B, Dm1Idle}

FilterArgs == {<<2, 1, 1, 1>>}

Next ==
    \/ FrameArrives(Frames, Times)
    \/ Tick(Times)
    \/ Clear
    \/ SetFiltering(FilterArgs)

Spec == Init /\ [][Next]_vars

(***************************************************************************)
(* SpecCap: four DTC identities and three announcements against the        *)
(* capacities; frames stamped 0, ticks at 0 and MaxTime.                   *)
(***************************************************************************)
FramesCap == {Dm1A, Dm1B, BamX, BamY, BamZ, BamFull, BamBig, DtZ1, DtZ2, DtZ3}

NextCap ==
    \/ FrameArrives(FramesCap, {0})
    \/ Tick({0, MaxTime})
    \/ Clear
    \/ SetFiltering(FilterArgs)

SpecCap == Init /\ [][NextCap]_vars

(***************************************************************************)
(* SpecFull: three DTC identities from single DM1 frames against an active *)
(* list of MAX_ACTIVE_DTCS, with the configuration changed on the way.     *)
(***************************************************************************)
FramesFull == {Dm1A, Dm1B, Dm1C}

TimesFull == {0, MaxTime}

\* The newest timestamp the tracker holds.  A log is replayed in time order
\* (process_asc_file), so the next frame is stamped no earlier.
Stamps == {candidate_dtcs[i].last_seen : i \in 1..Len(candidate_dtcs)}
              \cup {active_dtcs[i].last_seen : i \in 1..Len(active_dtcs)}

Newest == IF Stamps = {} THEN 0 ELSE CHOOSE x \in Stamps : \A y \in Stamps : y <= x

NextFull ==
    \/ FrameArrives(FramesFull, {timestamp \in TimesFull : timestamp >= Newest})
    \/ Tick({MaxTime})
    \/ SetFiltering(FilterArgs)

SpecFull == Init /\ [][NextFull]_vars

(***************************************************************************)
(* SpecScn: the scenarios.  The callback is registered and the filtering   *)
(* set to (3, 10, 20, 0) as main does before the log is replayed; then the *)
(* DM1 frame of the scenarios and ticks follow in time order, a tick after *)
(* the frame of the same second (process_asc_file).  hist lists the calls. *)
(***************************************************************************)
ScnFrameTimes == {0, 1, 2, 3, 15}

ScnTickTimes == {1, 3, 11, 15, 23, 24, 26}

ScnFiltering == <<3, 10, 20, 0>>

Event(op, timestamp, ret, cb) == [op |-> op, ts |-> timestamp, ret |-> ret, cb |-> cb]

\* The next call is stamped later than the one before, or is the tick of the
\* second whose frame was just processed.
InOrder(op, timestamp) ==
    \/ Len(hist) = 2
    \/ hist[Len(hist)].ts < timestamp
    \/ /\ hist[Len(hist)].ts = timestamp
       /\ hist[Len(hist)].op = "process_dtc_frame"
       /\ op = "check_dtcs"

ScnRegister ==
    /\ hist = << >>
    /\ register_dtc_updated_callback(TRUE)
    /\ hist' = <<Event("register_dtc_updated_callback", 0, FALSE, FALSE)>>
    /\ UNCHANGED <<main, notified>>

ScnFilter ==
    /\ Len(hist) = 1
    /\ set_dtc_filtering(ScnFiltering[1], ScnFiltering[2], ScnFiltering[3], ScnFiltering[4])
    /\ hist' = Append(hist, Event("set_dtc_filtering", 0, FALSE, FALSE))
    /\ UNCHANGED <<main, notified>>

ScnFrame ==
    \E timestamp \in ScnFrameTimes :
        /\ Len(hist) >= 2
        /\ Len(hist) < MaxHist
        /\ InOrder("process_dtc_frame", timestamp)
        /\ process_dtc_frame(Dm1A.id, Dm1A.data, timestamp)
        /\ hist' = Append(hist, Event("process_dtc_frame", timestamp, FALSE, FALSE))
        /\ UNCHANGED <<main, notified>>

ScnTick ==
    \E timestamp \in ScnTickTimes :
        /\ Len(hist) >= 2
        /\ Len(hist) < MaxHist
        /\ InOrder("check_dtcs", timestamp)
        /\ check_dtcs(timestamp)
        /\ hist' = Append(hist, Event("check_dtcs", timestamp, last'.ret, last'.cb))
        /\ UNCHANGED <<main, notified>>

NextScn == ScnRegister \/ ScnFilter \/ ScnFrame \/ ScnTick

SpecScn == Init /\ [][NextScn]_vars

(***************************************************************************)
(* SpecFlag: the tracker as in Spec, with a repeat of the first DTC under  *)
(* other lamp and occurrence values, and with notified keeping what the    *)
(* application was last told.                                              *)
(***************************************************************************)
FramesFlag == {Dm1A, Dm1A2, Dm1B}

TickNoted(times) ==
    \E timestamp \in times :
        /\ Running
        /\ check_dtcs(timestamp)
        /\ notified' = IF last'.ret THEN Idents(active_dtcs') ELSE notified
        /\ UNCHANGED <<main, hist>>

NextFlag ==
    \/ FrameArrives(FramesFlag, {timestamp \in TimesFull : timestamp >= Newest})
    \/ TickNoted(TimesFull)
    \/ Clear
    \/ SetFiltering(FilterArgs)

SpecFlag == Init /\ [][NextFlag]_vars

(***************************************************************************)
(* SpecBam: announcements from source 0x00 on 0x1CECFF00 and fragments on  *)
(* 0x1CEBFF00, in any order, with an idle single frame; hist lists the     *)
(* frames delivered.                                                       *)
(***************************************************************************)
\* A BAM for PGN 0xFECA declaring total_size and num_packets.
Bam(total_size, num_packets) ==
    Frame(BamX.id, <<32, total_size % 256, total_size \div 256, num_packets, 255, 202, 254, 0>>)

\* Packet 1 whose first record has SPN 0, and a packet 2 that ends a second
\* record (SPN 2, FMI 5) and goes on with 0xFF filler.
DtIdle1 == Frame(DtX1.id, <<1, 255, 0, 0, 0, 0, 0, 2>>)

DtFill2 == Frame(DtX1.id, <<2, 0, 5, 255, 255, 255, 255, 255>>)

FramesBam == {BamX, Bam(9, 2), Bam(5, 1), Bam(12, 3), DtX1, DtX2, DtIdle1, DtFill2, Dm1Idle}

BamTraffic ==
    \E f \in FramesBam :
        /\ Running
        /\ Len(hist) < MaxFrames
        /\ process_dtc_frame(f.id, f.data, 0)
        /\ hist' = Append(hist, f)
        /\ UNCHANGED <<main, notified>>

NextBam == BamTraffic

SpecBam == Init /\ [][NextBam]_vars

(***************************************************************************)
(* SpecGate: every entry point of the library, each call running to        *)
(* completion, with user sections between take_dtc_mutex and               *)
(* give_dtc_mutex during which the other entry points are called.          *)
(***************************************************************************)
FramesGate == {Dm1A, BamX}

BufSizes == {0, SIZEOF_DTC_INFO}

NextGate ==
    \/ FrameArrives(FramesGate, {0})
    \/ Tick({0, MaxTime})
    \/ Clear
    \/ Copy(BufSizes)
    \/ DynamicCopy
    \/ SetFiltering(FilterArgs)
    \/ Register
    \/ UserTake
    \/ UserGive

SpecGate == Init /\ [][NextGate]_vars

(***************************************************************************)
(* SpecCfg: set_dtc_filtering with every combination of zero and non-zero  *)
(* arguments, between frames and user sections.                            *)
(***************************************************************************)
CfgValues == {0, 2}

CfgArgs == CfgValues \X CfgValues \X CfgValues \X CfgValues

NextCfg ==
    \/ FrameArrives(FramesGate, {0})
    \/ SetFiltering(CfgArgs)
    \/ UserTake
    \/ UserGive

SpecCfg == Init /\ [][NextCfg]_vars

(***************************************************************************)
(* SpecIsr: one core; the main loop runs its calls statement by statement  *)
(* and process_dtc_frame is the CAN interrupt, which pre-empts the main    *)
(* loop between any two statements and runs to completion.                 *)
(***************************************************************************)
Call(op, timestamp, arg) == [op |-> op, ts |-> timestamp, arg |-> arg]

IsrCalls ==
    {Call("check_dtcs", t, 0) : t \in {0, MaxTime}}
        \cup {Call("copy_dtcs", 0, b) : b \in BufSizes}
        \cup {Call("dynamic_copy_dtcs", 0, ok) : ok \in {0, 1}}
        \cup {Call("clear_dtcs", 0, 0), Call("take_dtc_mutex", 0, 0)}

NextIsr ==
    \/ FrameArrives(FramesGate, {0})
    \/ MainCall(IsrCalls)
    \/ MainTest
    \/ MainSet
    \/ MainBody
    \/ MainNotify
    \/ MainGive
    \/ UserGive
    \/ (main.pc = "idle" /\ SetFiltering(FilterArgs))
    \/ (main.pc = "idle" /\ Register)

SpecIsr == Init /\ [][NextIsr]_vars

(***************************************************************************)
(* Properties.                                                             *)
(***************************************************************************)
IdSeq(list) == [i \in 1..Len(list) |-> Ident(list[i])]

\* The step is a call of process_dtc_frame (the main loop stays where it is).
StepIsFrame == main' = main /\ last'.op = "process_dtc_frame"

StepIsTick == last'.op = "check_dtcs"

\* C1 (identity uniqueness): no two records of the candidate list and the active
\* list taken together have the same (src, spn, fmi).
C1_IdentityUnique ==
    LET all == candidate_dtcs \o active_dtcs
    IN  \A i, j \in 1..Len(all) : i # j => Ident(all[i]) # Ident(all[j])

\* After a frame, a DTC that was observed again and promoted stands in the active
\* list next to a full candidate list.
C1_Witness ==
    /\ last.op = "process_dtc_frame"
    /\ Len(active_dtcs) >= 1
    /\ Len(candidate_dtcs) = MAX_CANDIDATE_DTCS

\* C2 (boundedness): the lists and the slot table never exceed their caps; a frame
\* that meets a full active list leaves its identities as they are, a single DM1
\* frame (the slot table is not touched) that meets a full candidate list brings no
\* identity into it, a frame that meets a full slot table brings no announce id
\* into it; the insertions themselves
\* (add_candidate_dtc, add_active_dtc, a BAM of an id not in the table) return the
\* state they were given.
C2_Counts ==
    /\ Len(candidate_dtcs) <= MAX_CANDIDATE_DTCS
    /\ Len(active_dtcs) <= MAX_ACTIVE_DTCS
    /\ Cardinality(Occupied(multi_frame_messages)) <= MAX_CONCURRENT_MULTIFRAME

C2_InsertDropped ==
    LET t == Cur.t
    IN  /\ Len(candidate_dtcs) = MAX_CANDIDATE_DTCS =>
              \A f \in {Dm1A, Dm1B, Dm1C, Dm1A2} :
                  add_candidate_dtc(t, NewDtcInfo(DecodeObs(f.id, f.data, 2), 0)) = t
        /\ Len(active_dtcs) = MAX_ACTIVE_DTCS =>
              \A i \in 1..Len(candidate_dtcs) : add_active_dtc(t, candidate_dtcs[i]) = t
        /\ Occupied(multi_frame_messages) = SlotIndexes =>
              \A f \in {BamX, BamY, BamZ} :
                  (\A i \in SlotIndexes : multi_frame_messages[i].message_id # f.id)
                  => handle_tp_cm_message(multi_frame_messages, f.id, f.data, 0)
                        = multi_frame_messages

C2_FullStep ==
    StepIsFrame =>
        /\ Len(active_dtcs) = MAX_ACTIVE_DTCS => IdSeq(active_dtcs') = IdSeq(active_dtcs)
        /\ (/\ Len(candidate_dtcs) = MAX_CANDIDATE_DTCS
            /\ multi_frame_messages' = multi_frame_messages) =>
              Idents(candidate_dtcs') \subseteq Idents(candidate_dtcs)
        /\ Occupied(multi_frame_messages) = SlotIndexes =>
              {multi_frame_messages'[i].message_id : i \in SlotIndexes}
                  \subseteq {multi_frame_messages[i].message_id : i \in SlotIndexes} \cup {0}

C2_Bounded == [][C2_Counts' /\ C2_InsertDropped' /\ C2_FullStep]_vars

\* Both lists and the slot table are full after a frame.
C2_Witness ==
    /\ last.op = "process_dtc_frame"
    /\ Len(candidate_dtcs) = MAX_CANDIDATE_DTCS
    /\ Len(active_dtcs) = MAX_ACTIVE_DTCS
    /\ Occupied(multi_frame_messages) = SlotIndexes

\* C3 (contention drop): a process_dtc_frame that finds the gate held, by a user
\* section or by a main-loop call between its take and its give, returns without
\* obtaining it and leaves both lists, the slot table, the changed flag, the gate
\* and the position of its holder as they were.
C3_ContentionDrop ==
    [][(StepIsFrame /\ dtc_mutex_taken) =>
          /\ ~last'.took
          /\ UNCHANGED <<candidate_dtcs, active_dtcs, multi_frame_messages,
                         changed_dtc_list, dtc_mutex_taken, main>>]_vars

\* A frame was dropped while check_dtcs stood before its callback, gate held.
C3_Witness ==
    /\ main.pc = "notify"
    /\ main.op = "check_dtcs"
    /\ dtc_mutex_taken
    /\ last.op = "process_dtc_frame"
    /\ ~last.took
    /\ last.at = "notify"

\* C4 (mutual exclusion under pre-emption): while a main-loop call or a user
\* section is between its take and its give the flag is set, an interrupt that
\* comes then returns without the gate and without touching the lists or the
\* slot table, and an interrupt that comes between the test and the store of
\* take_dtc_mutex has given the gate back when the main loop goes on.
Holding == main.pc \in {"body", "notify", "give", "user"}

C4_MutualExclusion ==
    [][/\ Holding' => dtc_mutex_taken'
       /\ (StepIsFrame /\ Holding) =>
              /\ ~last'.took
              /\ UNCHANGED <<candidate_dtcs, active_dtcs, multi_frame_messages>>
       /\ (StepIsFrame /\ main.pc = "set") => ~dtc_mutex_taken']_vars

\* The interrupt came between the test and the store of a main-loop take, handled
\* its frame, and the main loop went on into its section.
C4_Witness ==
    /\ main.pc = "body"
    /\ dtc_mutex_taken
    /\ last.op = "process_dtc_frame"
    /\ last.took
    /\ last.at = "set"

\* C5 (gate release on every path): a call of process_dtc_frame, check_dtcs,
\* clear_dtcs, copy_dtcs or dynamic_copy_dtcs that begins with the gate free
\* returns with the gate free.
GateOps ==
    {"process_dtc_frame", "check_dtcs", "clear_dtcs", "copy_dtcs", "dynamic_copy_dtcs"}

C5_GateReleased ==
    [][(~dtc_mutex_taken /\ last'.op \in GateOps) => ~dtc_mutex_taken']_vars

\* copy_dtcs returned false after obtaining the gate (buffer too small).
C5_Witness ==
    /\ last.op = "copy_dtcs"
    /\ last.took
    /\ ~last.ret

\* C6 (promotion rule), as the code has it: at a DM1 frame stamped ts that hands
\* one observation to the tracker, the candidates with read_count >=
\* dtc_active_read_count and ts - first_seen <= dtc_active_time_window (for the
\* observed record ts is its last_seen) leave the candidate list, in list order,
\* and enter the active list while it has room; those that find it full are
\* dropped.  Every other candidate stays, and no step other than a frame adds an
\* identity to the active list.
FrameStep(f, timestamp) == main' = main /\ process_dtc_frame(f.id, f.data, timestamp)

FirstK(seq, k) == SubSeq(seq, 1, IF k < Len(seq) THEN k ELSE Len(seq))

C6_AtObservation(f, timestamp) ==
    LET t1 == Observe(Cur.t, timestamp, DecodeObs(f.id, f.data, 2))
        Due(d) == /\ d.read_count >= dtcParseCfg.dtc_active_read_count
                  /\ U32DiffLe(timestamp, d.first_seen, dtcParseCfg.dtc_active_time_window)
        NotDue(d) == ~Due(d)
    IN  /\ candidate_dtcs' = SelectSeq(t1.cand, NotDue)
        /\ active_dtcs' = t1.act \o FirstK(SelectSeq(t1.cand, Due),
                                            MAX_ACTIVE_DTCS - Len(t1.act))

C6_PromotionRule ==
    [][/\ \A f \in FramesFull, timestamp \in TimesFull :
              (FrameStep(f, timestamp) /\ last'.took) => C6_AtObservation(f, timestamp)
       /\ ~StepIsFrame => Idents(active_dtcs') \subseteq Idents(active_dtcs)]_vars

\* A frame found the active list full and a candidate left the candidate list.
C6_Witness ==
    /\ last.op = "process_dtc_frame"
    /\ last.took
    /\ last.n_active = MAX_ACTIVE_DTCS
    /\ Len(candidate_dtcs) < last.n_candidate

\* C6 as claimed: at each observation a candidate is in the active list afterwards
\* if and only if read_count >= dtc_active_read_count and last_seen - first_seen <=
\* dtc_active_time_window; never at a tick.
C6_AsClaimed ==
    [][/\ \A f \in FramesFull, timestamp \in TimesFull :
              (FrameStep(f, timestamp) /\ last'.took) =>
                  LET t1 == Observe(Cur.t, timestamp, DecodeObs(f.id, f.data, 2))
                  IN  \A i \in 1..Len(t1.cand) :
                          Ident(t1.cand[i]) \in Idents(active_dtcs')
                          <=> /\ t1.cand[i].read_count >= dtcParseCfg.dtc_active_read_count
                              /\ U32DiffLe(t1.cand[i].last_seen, t1.cand[i].first_seen,
                                           dtcParseCfg.dtc_active_time_window)
       /\ ~StepIsFrame => Idents(active_dtcs') \subseteq Idents(active_dtcs)]_vars

(***************************************************************************)
(* The scenarios, read off hist.                                           *)
(***************************************************************************)
\* The calls after the set-up.
Ev == SubSeq(hist, 3, Len(hist))

F(timestamp) == Event("process_dtc_frame", timestamp, FALSE, FALSE)

S1Frames == <<F(0), F(1), F(2), F(3)>>

\* S1 followed by the tick at ts=3 that consumes the change.
S3Start == S1Frames \o <<Event("check_dtcs", 3, TRUE, TRUE)>>

StartsWith(seq, prefix) ==
    Len(seq) >= Len(prefix) /\ SubSeq(seq, 1, Len(prefix)) = prefix

\* C7 (scenario S1): with filtering (3, 10, 20, 0) and the DM1 frame of source 3,
\* SPN 1, FMI 5 fed at ts 0, 1, 2, 3, the active list is empty after the frames at
\* 0 and 1; after the frames at 2 and 3 it holds exactly that DTC and the
\* candidate list is empty; the next check_dtcs invokes the callback and returns
\* true.
C7_ScenarioS1 ==
    /\ Ev \in {SubSeq(S1Frames, 1, 1), SubSeq(S1Frames, 1, 2)} => active_dtcs = << >>
    /\ Ev \in {SubSeq(S1Frames, 1, 3), S1Frames} =>
           IdSeq(active_dtcs) = << <<3, 1, 5>> >> /\ candidate_dtcs = << >>
    /\ (Len(Ev) = 5 /\ StartsWith(Ev, S1Frames) /\ Ev[5].op = "check_dtcs") =>
           Ev[5].ts >= 3 /\ Ev[5].ret /\ Ev[5].cb

C7_Witness == Ev = S3Start /\ active_dtcs # << >>

\* C8 (aging rule): a check_dtcs(ts) that obtains the gate removes from the active
\* list exactly the records with ts - last_seen > debounce_dtc_inactive_time and
\* keeps the others in order; when it removes one it returns true, the changed
\* flag having been set by the removal.
TickStep(timestamp) == main' = main /\ check_dtcs(timestamp)

C8_AgingRule ==
    [][\A timestamp \in Times :
           (TickStep(timestamp) /\ last'.took) =>
               LET Fresh(d) == U32DiffLe(timestamp, d.last_seen,
                                         dtcParseCfg.debounce_dtc_inactive_time)
               IN  /\ active_dtcs' = SelectSeq(active_dtcs, Fresh)
                   /\ active_dtcs' # active_dtcs => last'.ret]_vars

\* A tick found two active DTCs, aged one out and left the other.
C8_Witness ==
    /\ last.op = "check_dtcs"
    /\ last.took
    /\ last.ret
    /\ last.n_active = 2
    /\ Len(active_dtcs) = 1

\* C9 (scenario S3), as the code has it: after S1 and the tick at ts=3, with no
\* further frame, a check_dtcs(ts) with ts <= 23 returns false and leaves the DTC
\* active (23 - 3 is not above 20); the first check_dtcs(ts) with ts >= 24
\* removes it and returns true.
C9_ScenarioS3 ==
    /\ (Len(Ev) = 6 /\ StartsWith(Ev, S3Start) /\ Ev[6].op = "check_dtcs" /\ Ev[6].ts <= 23) =>
           ~Ev[6].ret /\ IdSeq(active_dtcs) = << <<3, 1, 5>> >>
    /\ (Len(Ev) = 6 /\ StartsWith(Ev, S3Start) /\ Ev[6].op = "check_dtcs" /\ Ev[6].ts >= 24) =>
           Ev[6].ret /\ active_dtcs = << >>
    /\ (Len(Ev) = 7 /\ StartsWith(Ev, S3Start \o <<Event("check_dtcs", 23, FALSE, FALSE)>>)
          /\ Ev[7].op = "check_dtcs") =>
           Ev[7].ret /\ active_dtcs = << >>

C9_Witness ==
    Ev = S3Start \o <<Event("check_dtcs", 23, FALSE, FALSE), Event("check_dtcs", 24, TRUE, TRUE)>>

\* C9 as claimed: check_dtcs(24) returns false and leaves the DTC in the active
\* list, and check_dtcs(26) then removes it and returns true.
C9_AsClaimed ==
    /\ (Len(Ev) = 6 /\ StartsWith(Ev, S3Start) /\ Ev[6].op = "check_dtcs" /\ Ev[6].ts = 24) =>
           ~Ev[6].ret /\ IdSeq(active_dtcs) = << <<3, 1, 5>> >>
    /\ (Len(Ev) = 7 /\ StartsWith(Ev, S3Start) /\ Ev[6].op = "check_dtcs" /\ Ev[6].ts = 24
          /\ Ev[7].op = "check_dtcs" /\ Ev[7].ts = 26) =>
           Ev[7].ret /\ active_dtcs = << >>

\* C10 (candidate drop rule): a check_dtcs(ts) that obtains the gate removes from
\* the candidate list exactly the records with ts - first_seen >
\* dtc_active_time_window and keeps the others in order; it returns true only
\* if the changed flag was set before or an active DTC aged out, so removing a
\* candidate does not set the flag.  In S2 (the DTC observed at ts 0 and 15
\* only) the DTC is never active, no tick returns true, and after a tick at
\* ts >= 11 the candidate first seen at 0 is gone.
FramesOf(seq) == SelectSeq(seq, LAMBDA e : e.op = "process_dtc_frame")

S2Run == FramesOf(Ev) \in {<<F(0)>>, <<F(0), F(15)>>}

C10_AtTick(timestamp) ==
    LET InWindow(d) == U32DiffLe(timestamp, d.first_seen, dtcParseCfg.dtc_active_time_window)
    IN  /\ candidate_dtcs' = SelectSeq(candidate_dtcs, InWindow)
        /\ last'.ret <=> (changed_dtc_list \/ active_dtcs' # active_dtcs)

C10_InS2 ==
    S2Run =>
        /\ active_dtcs = << >>
        /\ \A k \in 1..Len(Ev) : ~Ev[k].ret
        /\ (Ev[Len(Ev)].op = "check_dtcs" /\ Ev[Len(Ev)].ts >= 11) =>
               \A i \in 1..Len(candidate_dtcs) : candidate_dtcs[i].first_seen # 0

C10_CandidateDrop ==
    /\ []C10_InS2
    /\ [][\A timestamp \in ScnTickTimes :
              (TickStep(timestamp) /\ last'.took) => C10_AtTick(timestamp)]_vars

\* The DTC was seen at 0 and at 15 and a later tick removed the candidate.
C10_Witness ==
    /\ FramesOf(Ev) = <<F(0), F(15)>>
    /\ Ev[Len(Ev)].op = "check_dtcs"
    /\ Len(Ev) = 3
    /\ candidate_dtcs = << >>

\* C11 (change-flag discipline), as claimed: a check_dtcs that obtains the gate
\* returns true exactly when the identities in the active list differ from those
\* at the last check_dtcs that returned true (none before the first).
C11_ChangeFlag ==
    [][(StepIsTick /\ main' = main /\ last'.took) =>
           (last'.ret <=> Idents(active_dtcs') # notified)]_vars

\* A check_dtcs has just returned false although the active identities are not
\* those last handed over.
C11_Witness ==
    /\ last.op = "check_dtcs"
    /\ last.took
    /\ ~last.ret
    /\ Idents(active_dtcs) # notified

\* C12 (clearing of the changed flag), as the code has it: the flag is cleared
\* only by a check_dtcs that obtains the gate and finds it set (after aging);
\* that call returns true and invokes the subscriber if one is registered; when
\* none is registered it clears the flag and returns true without a callback.
C12_FlagCleared ==
    [][/\ StepIsTick =>
              /\ last'.cb <=> (last'.ret /\ updated_active_dtcs_callback)
              /\ last'.ret => (last'.took /\ ~changed_dtc_list')
              /\ (changed_dtc_list /\ ~changed_dtc_list') => last'.ret
              /\ (changed_dtc_list /\ last'.took) => last'.ret
       /\ ~StepIsTick => (changed_dtc_list => changed_dtc_list')]_vars

\* A check_dtcs returned true and cleared the flag with no subscriber registered.
C12_Witness ==
    /\ last.op = "check_dtcs"
    /\ last.ret
    /\ ~last.cb
    /\ ~updated_active_dtcs_callback
    /\ ~changed_dtc_list
    /\ active_dtcs # << >>

\* C12 as claimed: check_dtcs returns true only in a call that invoked the
\* subscriber, and the flag is never cleared in a call that delivers no callback.
C12_AsClaimed ==
    [][StepIsTick =>
           /\ last'.ret => last'.cb
           /\ (changed_dtc_list /\ ~changed_dtc_list') => last'.cb]_vars

\* C13 (contended tick): a check_dtcs that finds the gate taken returns false,
\* invokes no callback and leaves the lists, the slot table, the changed flag, the
\* gate and its holder as they were; no other call clears a set flag, and a
\* check_dtcs that obtains the gate with the flag set returns true.
C13_ContendedTick ==
    [][/\ (StepIsTick /\ dtc_mutex_taken) =>
              /\ ~last'.took /\ ~last'.ret /\ ~last'.cb
              /\ UNCHANGED <<candidate_dtcs, active_dtcs, multi_frame_messages,
                             changed_dtc_list, dtc_mutex_taken, main>>
       /\ (StepIsTick /\ ~dtc_mutex_taken /\ changed_dtc_list) => last'.ret
       /\ ~StepIsTick => (changed_dtc_list => changed_dtc_list')]_vars

\* A tick was turned away by a user section while a change was pending.
C13_Witness ==
    /\ last.op = "check_dtcs"
    /\ ~last.took
    /\ main.pc = "user"
    /\ dtc_mutex_taken
    /\ changed_dtc_list
    /\ active_dtcs # << >>

(***************************************************************************)
(* SpecMono: frames and ticks whose timestamps never go back; hist holds   *)
(* the latest timestamp handed to the library.                             *)
(***************************************************************************)
FramesMono == {Dm1A, Dm1B}

Now == IF hist = << >> THEN 0 ELSE hist[1]

MonoFrame ==
    \E f \in FramesMono, timestamp \in Times :
        /\ timestamp >= Now
        /\ Running
        /\ process_dtc_frame(f.id, f.data, timestamp)
        /\ ReadCountBounded(candidate_dtcs')
        /\ hist' = <<timestamp>>
        /\ UNCHANGED <<main, notified>>

MonoTick ==
    \E timestamp \in Times :
        /\ timestamp >= Now
        /\ Running
        /\ check_dtcs(timestamp)
        /\ hist' = <<timestamp>>
        /\ UNCHANGED <<main, notified>>

NextMono == MonoFrame \/ MonoTick \/ SetFiltering(FilterArgs)

SpecMono == Init /\ [][NextMono]_vars

(***************************************************************************)
(* SpecSlots: announcements from three sources for two slots, one of them  *)
(* oversized, fragments, and frames the classifier passes over; all        *)
(* stamped 0.  hist holds the latest frame.                                *)
(***************************************************************************)
\* A TP.CM frame for PGN 0xFECA whose control byte is 0x10 (RTS), not BAM.
RtsX == Frame(BamX.id, <<16, 12, 0, 2, 255, 202, 254, 0>>)

FramesSlots ==
    {BamX, BamY, BamFull, BamBig, DtX1, DtZ1, DtZ2, DtZ3, OtherFrame, BamOtherPgn, RtsX}

SlotsTraffic ==
    \E f \in FramesSlots :
        /\ Running
        /\ process_dtc_frame(f.id, f.data, 0)
        /\ hist' = <<f>>
        /\ UNCHANGED <<main, notified>>

NextSlots == SlotsTraffic

SpecSlots == Init /\ [][NextSlots]_vars

(***************************************************************************)
(* SpecAge: two announcements and a fragment stamped 0 or 1, ticks at any  *)
(* timestamp, and the multi-frame timeout at its default or at 1; hist     *)
(* holds the number of occupied slots the latest tick found.               *)
(***************************************************************************)
FramesAge == {BamX, BamY, DtX1}

TimesAge == {0, 1}

AgeTick ==
    \E timestamp \in Times :
        /\ Running
        /\ check_dtcs(timestamp)
        /\ hist' = <<Cardinality(Occupied(multi_frame_messages))>>
        /\ UNCHANGED <<main, notified>>

NextAge == FrameArrives(FramesAge, TimesAge) \/ AgeTick \/ SetFiltering(FilterArgs)

SpecAge == Init /\ [][NextAge]_vars

(***************************************************************************)
(* SpecRefresh: one identity observed with two sets of attributes and a    *)
(* second identity, all stamped 0, ticks at 0, and set_dtc_filtering       *)
(* lowering the read count first to 2 and then to 1; hist holds the        *)
(* latest frame.                                                           *)
(***************************************************************************)
FilterArgsRefresh == {<<2, 1, 1, 1>>, <<1, 0, 0, 0>>}

RefreshTraffic ==
    \E f \in FramesFlag :
        /\ Running
        /\ process_dtc_frame(f.id, f.data, 0)
        /\ ReadCountBounded(candidate_dtcs')
        /\ hist' = <<f>>
        /\ UNCHANGED <<main, notified>>

NextRefresh == RefreshTraffic \/ Tick({0}) \/ SetFiltering(FilterArgsRefresh)

SpecRefresh == Init /\ [][NextRefresh]_vars

(***************************************************************************)
(* SpecPad: a reassembled DM1 payload of 10 bytes whose second record is   *)
(* all zero or filler, beside single DM1 frames; all stamped 0.  hist      *)
(* holds the latest frame.                                                 *)
(***************************************************************************)
\* Packet 1 with one record (SPN 1, FMI 5) and a zero byte after it.
DtPad1 == Frame(DtX1.id, <<1, 255, 0, 1, 0, 5, 0, 0>>)

FramesPad == {Bam(10, 2), DtPad1, DtX2, DtFill2, Dm1A, Dm1Idle}

PadTraffic ==
    \E f \in FramesPad :
        /\ Running
        /\ process_dtc_frame(f.id, f.data, 0)
        /\ ReadCountBounded(candidate_dtcs')
        /\ hist' = <<f>>
        /\ UNCHANGED <<main, notified>>

NextPad == PadTraffic \/ SetFiltering(FilterArgs)

SpecPad == Init /\ [][NextPad]_vars

(***************************************************************************)
(* SpecLive: announcements that complete, that declare no packet or more   *)
(* packets than are sent, and one without fragments, while check_dtcs is   *)
(* called once per second.  Frames are stamped with the second of the last *)
(* tick and stop after MaxTime; the ticks go on until LiveQuiet, longer    *)
(* than the largest timeout after the last frame.  hist holds the second   *)
(* of the last tick and the number of slots it found in use.               *)
(***************************************************************************)
LiveQuiet == MaxTime + DefaultCfg.timeout_multi_frame + 1

\* The fragments carry an idle payload (first SPN 0), so that a completed message
\* leaves the tracker as it was.
FramesLive == {BamX, Bam(12, 0), Bam(12, 3), BamY, DtIdle1, DtX2}

LiveFrame ==
    \E f \in FramesLive :
        /\ Now <= MaxTime
        /\ Running
        /\ process_dtc_frame(f.id, f.data, Now)
        /\ UNCHANGED <<main, hist, notified>>

LiveTick ==
    /\ Now < LiveQuiet
    /\ Running
    /\ check_dtcs(Now + 1)
    /\ hist' = <<Now + 1, Cardinality(Occupied(multi_frame_messages))>>
    /\ UNCHANGED <<main, notified>>

NextLive == LiveFrame \/ LiveTick \/ SetFiltering(FilterArgs)

\* check_dtcs keeps being called: the main loop calls it once per second.
SpecLive == Init /\ [][NextLive]_vars /\ WF_vars(LiveTick)

(***************************************************************************)
(* SpecCb: SpecIsr, and the subscriber calling back into the library while *)
(* check_dtcs stands at its callback.                                      *)
(***************************************************************************)
InCallback == main.pc = "notify" /\ updated_active_dtcs_callback

Reenter ==
    /\ InCallback
    /\ \/ Tick({MaxTime})
       \/ Clear
       \/ Copy(BufSizes)
       \/ DynamicCopy

NextCb == NextIsr \/ Reenter

SpecCb == Init /\ [][NextCb]_vars

(***************************************************************************)
(* Reassembly, read off the frames in hist.                                *)
(***************************************************************************)
IsBam(f) == f.id = BamX.id

IsDt(f) == f.id = DtX1.id

DeclaredSize(f) == f.data[2] + 256 * f.data[3]

DeclaredPackets(f) == f.data[4]

PacketNumber(f) == f.data[1]

\* Bytes data[1..7] of the fragments, one after the other.
RECURSIVE Concat(_)
Concat(frs) == IF frs = << >> THEN << >> ELSE SubSeq(Head(frs).data, 2, 8) \o Concat(Tail(frs))

Truncated(seq, n) == SubSeq(seq, 1, IF n < Len(seq) THEN n ELSE Len(seq))

Numbered(frs) == \A j \in 1..Len(frs) : IsDt(frs[j]) /\ PacketNumber(frs[j]) = j

\* hist is one announcement followed by in-order fragments, so far.
OneMessage == hist # << >> /\ IsBam(hist[1]) /\ Numbered(Tail(hist))

\* ... and all of them have arrived.
WholeMessage == OneMessage /\ Len(hist) - 1 = DeclaredPackets(hist[1])

EmptyTracker == Trk(<< >>, << >>, FALSE)

SlotOpen == find_multi_frame_message(multi_frame_messages, DtX1.id) # 0

\* C14 (reassembly correctness): after an announcement of S bytes in K packets
\* and its K fragments in order, the tracker holds what the DM1 parser makes of
\* the first S bytes of the concatenated fragment bytes and of nothing else, and
\* the slot is released; before fragment K nothing has reached the tracker.
C14_Reassembly ==
    /\ WholeMessage =>
           /\ Cur.t = process_dm1_message(EmptyTracker, DtX1.id,
                                          Truncated(Concat(Tail(hist)), DeclaredSize(hist[1])),
                                          DeclaredSize(hist[1]), 0, dtcParseCfg)
           /\ ~SlotOpen
    /\ (OneMessage /\ Len(hist) - 1 < DeclaredPackets(hist[1])) =>
           Cur.t = EmptyTracker /\ SlotOpen

\* 9 bytes in 2 packets have been delivered in order.
C14_Witness == WholeMessage /\ hist[1] = Bam(9, 2) /\ hist[3] = DtFill2 /\ hist[2] = DtX1

\* The same for announcements whose size is not 1 modulo 4.
C14_Aligned == (OneMessage /\ DeclaredSize(hist[1]) % 4 = 1) \/ C14_Reassembly

\* C16 (scenario S4), as the code has it: the 12 payload bytes hold two records,
\* the second starting with the byte 0x02 that ends packet 1; the run ends with
\* the two candidates (0, 1, 5) and (0, 2, 0), no active record and the slot
\* released.
C16_ScenarioS4 ==
    hist = <<BamX, DtX1, DtX2>> =>
        /\ IdSeq(candidate_dtcs) = << <<0, 1, 5>>, <<0, 2, 0>> >>
        /\ active_dtcs = << >>
        /\ \A i \in SlotIndexes : multi_frame_messages[i] = FreeSlot

C16_Witness == hist = <<BamX, DtX1, DtX2>> /\ Len(candidate_dtcs) = 2

\* C16 as claimed: exactly one candidate, (0, 1, 5), and nothing else.
C16_AsClaimed ==
    hist = <<BamX, DtX1, DtX2>> =>
        /\ IdSeq(candidate_dtcs) = << <<0, 1, 5>> >>
        /\ active_dtcs = << >>
        /\ \A i \in SlotIndexes : multi_frame_messages[i] = FreeSlot

\* C17 (slot invariant): every occupied slot has received_packets <= num_packets
\* <= ceil(total_size / 7) and total_size <= MAX_MULTIFRAME_DATA_SIZE.
C17_SlotInvariant ==
    \A i \in Occupied(multi_frame_messages) :
        LET slot == multi_frame_messages[i]
        IN  /\ slot.received_packets <= slot.num_packets
            /\ slot.num_packets <= (slot.total_size + 6) \div 7
            /\ slot.total_size <= MAX_MULTIFRAME_DATA_SIZE

\* The parts of C17 that do not involve num_packets against total_size.
C17_Rest ==
    \A i \in Occupied(multi_frame_messages) :
        /\ multi_frame_messages[i].received_packets <= multi_frame_messages[i].num_packets
        /\ multi_frame_messages[i].total_size <= MAX_MULTIFRAME_DATA_SIZE

\* An announcement of 12 bytes in 3 packets has been accepted.
C17_Witness ==
    /\ hist = <<Bam(12, 3)>>
    /\ SlotOpen

\* The frame a step delivers, where hist ends with the latest frame.
Delivered == hist'[Len(hist')]

LatestBam(h) == IF \E i \in 1..Len(h) : IsBam(h[i])
                THEN CHOOSE i \in 1..Len(h) : IsBam(h[i]) /\ \A j \in (i + 1)..Len(h) : ~IsBam(h[j])
                ELSE 0

\* The fragments that followed the latest announcement.
FragmentsSince(h) == SelectSeq(SubSeq(h, LatestBam(h) + 1, Len(h)), IsDt)

\* The latest announcement of h has been followed by exactly its fragments
\* 1..num_packets, in order.
InOrderComplete(h) ==
    /\ LatestBam(h) # 0
    /\ Numbered(FragmentsSince(h))
    /\ Len(FragmentsSince(h)) = DeclaredPackets(h[LatestBam(h)])

\* C15 (strict fragment order): a fragment whose number is not
\* received_packets + 1 releases the slot and hands nothing to the tracker; the
\* fragments that follow find no slot and change nothing; the tracker changes only
\* when the fragments 1..num_packets of the latest announcement have all arrived,
\* in order.
C15_StrictOrder ==
    [][LET m == find_multi_frame_message(multi_frame_messages, DtX1.id)
       IN  /\ (IsDt(Delivered) /\ m # 0
                 /\ PacketNumber(Delivered) # multi_frame_messages[m].received_packets + 1) =>
                  /\ ~SlotOpen'
                  /\ UNCHANGED <<candidate_dtcs, active_dtcs, changed_dtc_list>>
           /\ (IsDt(Delivered) /\ m = 0) =>
                  UNCHANGED <<candidate_dtcs, active_dtcs, changed_dtc_list, multi_frame_messages>>
           /\ Cur'.t # Cur.t => IsDt(Delivered) /\ InOrderComplete(hist')]_vars

\* Scenario S5 and on: packet 2 first, then packets 1 and 2.
C15_Witness == hist = <<BamX, DtX2, DtX1, DtX2>> /\ Cur.t = EmptyTracker /\ ~SlotOpen

\* The payload the latest announcement of h declared, as delivered.
PayloadSize(h) == DeclaredSize(h[LatestBam(h)])

\* C18 (idle and short payloads): a DM1 payload, single-frame or reassembled, of
\* length below 6 or whose first record has SPN 0 leaves the lists and the changed
\* flag as they were, whatever its later records carry.
C18_IdleAndShort ==
    [][(\/ ~IsBam(Delivered) /\ ~IsDt(Delivered) /\ DecodeSpn(Delivered.data, 2) = 0
        \/ /\ IsDt(Delivered)
           /\ InOrderComplete(hist')
           /\ \/ PayloadSize(hist') < 6
              \/ DecodeSpn(Concat(FragmentsSince(hist')), 2) = 0)
       => UNCHANGED <<candidate_dtcs, active_dtcs, changed_dtc_list>>]_vars

\* A reassembled payload whose first record is idle and whose second has SPN 2.
C18_Witness ==
    /\ hist = <<BamX, DtIdle1, DtX2>>
    /\ DecodeSpn(Concat(Tail(hist)), 6) = 2
    /\ Cur.t = EmptyTracker
    /\ ~SlotOpen

\* C19 (DM1 decoding of S1), as the code has it: the frame 0x18FECA03
\* [FF 00 01 00 05 00 02 00] yields exactly one record: src 3, spn 1, fmi 5, cm 0,
\* oc 0 (data[5] & 0x7F) and lamps 3, 3, 3, 3; the byte 0x02 is data[6], which no
\* record of an 8-byte payload reaches.  With [54 00 01 00 05 83 FF FF] the record
\* has cm 1, oc 3 and lamps 1, 1, 1, 0.
C19_DecodingS1 ==
    /\ Ev = <<F(0)>> =>
           /\ candidate_dtcs = <<[src |-> 3, spn |-> 1, fmi |-> 5, first_seen |-> 0,
                                  last_seen |-> 0, read_count |-> 1, cm |-> 0, oc |-> 0,
                                  mil |-> 3, rsl |-> 3, awl |-> 3, pl |-> 3]>>
           /\ active_dtcs = << >>
    /\ Dm1Records(Dm1A.id, Dm1A.data, 8, 2) = <<Obs(3, 1, 5, 0, 0, 3, 3, 3, 3)>>
    /\ Dm1Records(Dm1A2.id, Dm1A2.data, 8, 2) = <<Obs(3, 1, 5, 1, 3, 1, 1, 1, 0)>>

C19_Witness == Ev = <<F(0)>> /\ Len(candidate_dtcs) = 1 /\ candidate_dtcs[1].oc = 0

\* C19 as claimed: the record of that frame has oc 2.
C19_AsClaimed ==
    Ev = <<F(0)>> =>
        /\ Len(candidate_dtcs) = 1
        /\ Ident(candidate_dtcs[1]) = <<3, 1, 5>>
        /\ candidate_dtcs[1].cm = 0
        /\ candidate_dtcs[1].oc = 2
        /\ candidate_dtcs[1].mil = 3 /\ candidate_dtcs[1].rsl = 3
        /\ candidate_dtcs[1].awl = 3 /\ candidate_dtcs[1].pl = 3

\* C20 (record iteration bound): a payload of length L >= 6 with a first SPN other
\* than 0 yields floor((L - 2) / 4) records, those that start at i = 2, 6, 10, ...
\* with i + 4 <= L.
C20_RecordBound ==
    (WholeMessage /\ PayloadSize(hist) >= 6 /\ DecodeSpn(Concat(Tail(hist)), 2) # 0) =>
        /\ Len(Dm1Records(DtX1.id, Concat(Tail(hist)), PayloadSize(hist), 2))
               = (PayloadSize(hist) - 2) \div 4
        /\ Len(candidate_dtcs) = (PayloadSize(hist) - 2) \div 4

\* A payload of 9 bytes has gone through the parser.
C20_Witness == WholeMessage /\ PayloadSize(hist) = 9 /\ ~SlotOpen

\* C21 (set_dtc_filtering): each of the four arguments, on its own, replaces the
\* stored value when it is not zero and leaves it when it is zero; before any
\* call the values are 10, 10, 20, 5; the call leaves the lists, the slots, the
\* changed flag and the gate as they were.
C21_Filtering ==
    [][/\ last.op = "init" =>
              dtcParseCfg = [dtc_active_read_count |-> 10, dtc_active_time_window |-> 10,
                             debounce_dtc_inactive_time |-> 20, timeout_multi_frame |-> 5]
       /\ \A a \in CfgArgs :
              (main' = main /\ set_dtc_filtering(a[1], a[2], a[3], a[4])) =>
                  /\ dtcParseCfg'.dtc_active_read_count =
                         IF a[1] # 0 THEN a[1] ELSE dtcParseCfg.dtc_active_read_count
                  /\ dtcParseCfg'.dtc_active_time_window =
                         IF a[2] # 0 THEN a[2] ELSE dtcParseCfg.dtc_active_time_window
                  /\ dtcParseCfg'.debounce_dtc_inactive_time =
                         IF a[3] # 0 THEN a[3] ELSE dtcParseCfg.debounce_dtc_inactive_time
                  /\ dtcParseCfg'.timeout_multi_frame =
                         IF a[4] # 0 THEN a[4] ELSE dtcParseCfg.timeout_multi_frame
                  /\ UNCHANGED <<candidate_dtcs, active_dtcs, multi_frame_messages,
                                 changed_dtc_list, dtc_mutex_taken>>]_vars

\* A call with arguments (2, 0, 2, 0) was made during a user section, with a
\* candidate and an occupied slot present.
C21_Witness ==
    /\ last.op = "set_dtc_filtering"
    /\ dtcParseCfg = [dtc_active_read_count |-> 2, dtc_active_time_window |-> 10,
                      debounce_dtc_inactive_time |-> 2, timeout_multi_frame |-> 5]
    /\ main.pc = "user"
    /\ dtc_mutex_taken
    /\ candidate_dtcs # << >>
    /\ Occupied(multi_frame_messages) # {}

\* C22 (clear_dtcs): with the gate free, after clear_dtcs both lists are empty,
\* every slot is free and the gate is free again; with the gate held the call
\* changes nothing; the filtering configuration and the registered callback are
\* as before in both cases.
C22_Clear ==
    [][(main' = main /\ clear_dtcs) =>
          /\ ~dtc_mutex_taken =>
                 /\ candidate_dtcs' = << >>
                 /\ active_dtcs' = << >>
                 /\ \A i \in SlotIndexes : multi_frame_messages'[i] = FreeSlot
                 /\ ~dtc_mutex_taken'
          /\ dtc_mutex_taken =>
                 UNCHANGED <<candidate_dtcs, active_dtcs, multi_frame_messages,
                             changed_dtc_list, dtc_mutex_taken>>
          /\ UNCHANGED <<dtcParseCfg, updated_active_dtcs_callback>>]_vars

\* clear_dtcs obtained the gate with an active DTC present, a callback registered
\* and the filtering set, and left both lists and the slots empty.
C22_Witness ==
    /\ last.op = "clear_dtcs"
    /\ last.took
    /\ last.n_active > 0
    /\ active_dtcs = << >>
    /\ updated_active_dtcs_callback
    /\ dtcParseCfg # DefaultCfg
    /\ ~dtc_mutex_taken

\* C23 (callback): the subscriber is invoked by check_dtcs and by nothing else,
\* after aging and with the gate held, on the active list as it then is; while it
\* runs a process_dtc_frame is dropped and changes nothing, a library call it
\* makes that needs the gate fails and leaves the gate held; the gate is released
\* when check_dtcs goes on after the callback.
C23_Callback ==
    [][/\ last'.cb => last'.op = "check_dtcs"
       /\ main'.cb => main'.op = "check_dtcs" /\ main'.pc = "give"
       /\ main'.pc = "notify" =>
              /\ main'.op = "check_dtcs"
              /\ dtc_mutex_taken'
              /\ \A i \in 1..Len(active_dtcs') :
                     U32DiffLe(main'.ts, active_dtcs'[i].last_seen,
                               dtcParseCfg'.debounce_dtc_inactive_time)
       /\ (main.pc = "notify" /\ main' = main) =>
              /\ ~last'.took
              /\ UNCHANGED <<candidate_dtcs, active_dtcs, multi_frame_messages,
                             changed_dtc_list, dtc_mutex_taken>>
       /\ (main.pc = "notify" /\ main' # main) =>
              /\ main'.pc = "give"
              /\ main'.cb = updated_active_dtcs_callback
              /\ dtc_mutex_taken'
              /\ UNCHANGED active_dtcs
       /\ (main.pc = "give" /\ main.op = "check_dtcs" /\ main' # main) =>
              /\ ~dtc_mutex_taken'
              /\ last'.op = "check_dtcs"
              /\ last'.cb = main.cb]_vars

\* The subscriber called copy_dtcs from inside the callback: the call failed and
\* the gate is still held by check_dtcs.
C23_Witness ==
    /\ InCallback
    /\ last.op = "copy_dtcs"
    /\ last.at = "notify"
    /\ ~last.took
    /\ dtc_mutex_taken
    /\ active_dtcs # << >>

\* C24 (timestamp ordering): with timestamps that never go back, every record of
\* the candidate list and of the active list has first_seen <= last_seen <= the
\* latest timestamp handed to the library.
C24_TimestampOrder ==
    \A list \in {candidate_dtcs, active_dtcs} :
        \A i \in 1..Len(list) :
            list[i].first_seen <= list[i].last_seen /\ list[i].last_seen <= Now

\* A frame has just promoted a record first seen at an earlier timestamp.
C24_Witness ==
    /\ last.op = "process_dtc_frame"
    /\ last.n_active = 0
    /\ Len(active_dtcs) = 1
    /\ active_dtcs[1].first_seen < active_dtcs[1].last_seen
    /\ active_dtcs[1].last_seen = Now

(***************************************************************************)
(* The classifier and the slot table.                                      *)
(***************************************************************************)
IsTpCm(f) == BitsAt(f.id, 16, 8) = 236

IsTpDt(f) == BitsAt(f.id, 16, 8) = 235

IsDm1(f) == BitsAt(f.id, 8, 16) = 65226

EmbeddedPgn(f) == f.data[6] + 256 * f.data[7] + 65536 * f.data[8]

\* A BAM for PGN 0xFECA, as the classifier forwards it to the reassembler.
Announces(f) == IsTpCm(f) /\ EmbeddedPgn(f) = 65226 /\ f.data[1] = 32

MessageId(f) == f.id % Pow2(29)

\* The slot an accepted BAM leaves behind.
Announced(f, timestamp) ==
    [message_id |-> MessageId(f),
     message_id_tp_dt |-> MessageId(f) - BitsAt(MessageId(f), 16, 8) * 65536 + 235 * 65536,
     total_size |-> DeclaredSize(f), num_packets |-> DeclaredPackets(f),
     received_packets |-> 0, first_seen |-> timestamp, last_seen |-> timestamp,
     data |-> [i \in 1..MAX_MULTIFRAME_DATA_SIZE |-> 0]]

Lowest(S) == CHOOSE i \in S : \A j \in S : i <= j

\* The selection rule of C25 at one accepted BAM.
C25_AtBam(f, timestamp) ==
    LET same == {i \in Occupied(multi_frame_messages) :
                    multi_frame_messages[i].message_id = MessageId(f)}
        free == SlotIndexes \ Occupied(multi_frame_messages)
    IN  IF same # {}
        THEN multi_frame_messages' =
                 [multi_frame_messages EXCEPT ![Lowest(same)] = Announced(f, timestamp)]
        ELSE IF free # {}
        THEN multi_frame_messages' =
                 [multi_frame_messages EXCEPT ![Lowest(free)] = Announced(f, timestamp)]
        ELSE UNCHANGED multi_frame_messages

\* The selection rule alone.
C25_Rule ==
    [][(Announces(Delivered) /\ DeclaredSize(Delivered) <= MAX_MULTIFRAME_DATA_SIZE) =>
           C25_AtBam(Delivered, 0)]_vars

\* The consequence C25 draws from it.
C25_Distinct ==
    /\ \A i, j \in Occupied(multi_frame_messages) :
           i # j => /\ multi_frame_messages[i].message_id # multi_frame_messages[j].message_id
                    /\ multi_frame_messages[i].message_id_tp_dt
                           # multi_frame_messages[j].message_id_tp_dt
    /\ \A i \in Occupied(multi_frame_messages) :
           multi_frame_messages[i].message_id_tp_dt
               = TpDtId(multi_frame_messages[i].message_id)

\* C25 (BAM slot selection): an accepted BAM reuses and resets the occupied slot
\* that has its 29-bit id, or else takes the lowest free slot, or else is dropped;
\* and so no two occupied slots share a message_id or a message_id_tp_dt, and
\* message_id_tp_dt is always (message_id & 0xFF00FFFF) | 0x00EB0000.
C25_SlotSelection ==
    [][/\ (Announces(Delivered) /\ DeclaredSize(Delivered) <= MAX_MULTIFRAME_DATA_SIZE) =>
              C25_AtBam(Delivered, 0)
       /\ C25_Distinct']_vars

\* A fragment was stored past data[] of the first slot, onto the second.
C25_Witness ==
    /\ hist = <<DtZ3>>
    /\ mem_fault.kind = "next_slot"
    /\ multi_frame_messages[2].message_id # 0
    /\ multi_frame_messages[2].message_id_tp_dt # TpDtId(multi_frame_messages[2].message_id)

\* C26 (rejected announcements): a BAM whose total_size is above
\* MAX_MULTIFRAME_DATA_SIZE, and a BAM that finds every slot occupied by other
\* announce ids, leave every slot (the one in flight under the id of the oversized
\* BAM included), both lists and the changed flag as they were.
C26_Rejected ==
    [][(/\ Announces(Delivered)
        /\ \/ DeclaredSize(Delivered) > MAX_MULTIFRAME_DATA_SIZE
           \/ /\ Occupied(multi_frame_messages) = SlotIndexes
              /\ \A i \in SlotIndexes :
                     multi_frame_messages[i].message_id # MessageId(Delivered))
       => UNCHANGED <<multi_frame_messages, candidate_dtcs, active_dtcs,
                      changed_dtc_list>>]_vars

\* An oversized BAM came under the id of a message whose first fragment is in.
C26_Witness ==
    /\ hist = <<BamBig>>
    /\ \E i \in SlotIndexes :
           /\ multi_frame_messages[i].message_id = MessageId(BamBig)
           /\ multi_frame_messages[i].received_packets = 1

\* A BAM from a third source found both slots taken.
C26_Exhausted ==
    /\ hist = <<BamY>>
    /\ Occupied(multi_frame_messages) = SlotIndexes
    /\ \A i \in SlotIndexes : multi_frame_messages[i].message_id # MessageId(BamY)

\* C28 (classifier frame effect): a frame whose id is neither DM1 nor TP.CM nor
\* TP.DT, a TP.CM frame whose embedded PGN is not 0xFECA or whose control byte is
\* not 0x20, and a TP.DT frame whose id is the message_id_tp_dt of no occupied
\* slot, leave the lists, the slot table and the changed flag as they were.
C28_Classifier ==
    [][(\/ ~IsDm1(Delivered) /\ ~IsTpCm(Delivered) /\ ~IsTpDt(Delivered)
        \/ IsTpCm(Delivered) /\ (EmbeddedPgn(Delivered) # 65226 \/ Delivered.data[1] # 32)
        \/ /\ IsTpDt(Delivered)
           /\ \A i \in Occupied(multi_frame_messages) :
                  multi_frame_messages[i].message_id_tp_dt # MessageId(Delivered))
       => UNCHANGED <<candidate_dtcs, active_dtcs, multi_frame_messages,
                      changed_dtc_list>>]_vars

\* An RTS came under the id of a message whose first fragment is in.
C28_Witness ==
    /\ hist = <<RtsX>>
    /\ \E i \in SlotIndexes :
           /\ multi_frame_messages[i].message_id = MessageId(RtsX)
           /\ multi_frame_messages[i].received_packets = 1

\* A fragment came for which no slot is open, another message being in flight.
C28_NoSlot ==
    /\ hist = <<DtX1>>
    /\ Occupied(multi_frame_messages) # {}
    /\ find_multi_frame_message(multi_frame_messages, MessageId(DtX1)) = 0

Observed(f) == DecodeObs(f.id, f.data, 2)

\* Where the identity of the record of f stands in a list, 0 if nowhere.
Place(list, f) == find_dtc(list, Observed(f).src, Observed(f).spn, Observed(f).fmi)

\* C29 (observation of an active identity): it changes oc, mil, rsl, awl, pl and
\* last_seen of that active record and nothing else: no read_count or first_seen,
\* no candidate promoted, inserted or removed, and the changed flag as it was,
\* whatever set_dtc_filtering has done to the read count or the window before.
C29_ActiveRefresh ==
    [][(last'.op = "process_dtc_frame" /\ Place(active_dtcs, Delivered) # 0) =>
          /\ active_dtcs' =
                 [active_dtcs EXCEPT ![Place(active_dtcs, Delivered)] =
                     [@ EXCEPT !.oc = Observed(Delivered).oc, !.mil = Observed(Delivered).mil,
                               !.rsl = Observed(Delivered).rsl, !.awl = Observed(Delivered).awl,
                               !.pl = Observed(Delivered).pl, !.last_seen = 0]]
          /\ candidate_dtcs' = candidate_dtcs
          /\ changed_dtc_list' = changed_dtc_list]_vars

\* A frame of an identity already active has promoted the candidate of another
\* identity and set the changed flag.
C29_Witness ==
    /\ last.op = "process_dtc_frame"
    /\ hist = <<Dm1A>>
    /\ last.n_active = 1
    /\ last.n_candidate = 1
    /\ IdSeq(active_dtcs) = << <<3, 1, 5>>, <<3, 2, 5>> >>
    /\ candidate_dtcs = << >>
    /\ changed_dtc_list

\* C29 without the promotion of other candidates: what the refresh itself does.
C29_RefreshOnly ==
    [][(last'.op = "process_dtc_frame" /\ Place(active_dtcs, Delivered) # 0) =>
          SubSeq(active_dtcs', 1, Len(active_dtcs)) =
              [active_dtcs EXCEPT ![Place(active_dtcs, Delivered)] =
                  [@ EXCEPT !.oc = Observed(Delivered).oc, !.mil = Observed(Delivered).mil,
                            !.rsl = Observed(Delivered).rsl, !.awl = Observed(Delivered).awl,
                            !.pl = Observed(Delivered).pl, !.last_seen = 0]]]_vars

\* C30 (cm is refreshed like the lamps): after an observation of an identity
\* already in the candidate or the active list, the cm of its record is the cm
\* bit of that observation.
C30_CmRefreshed ==
    [][(/\ last'.op = "process_dtc_frame"
        /\ Place(active_dtcs, Delivered) # 0 \/ Place(candidate_dtcs, Delivered) # 0) =>
          /\ Place(active_dtcs', Delivered) # 0 =>
                 active_dtcs'[Place(active_dtcs', Delivered)].cm = Observed(Delivered).cm
          /\ Place(candidate_dtcs', Delivered) # 0 =>
                 candidate_dtcs'[Place(candidate_dtcs', Delivered)].cm
                     = Observed(Delivered).cm]_vars

\* The frame with cm 1 and oc 3 has refreshed the active record first seen with
\* cm 0: oc is 3 and cm still 0.
C30_Witness ==
    /\ hist = <<Dm1A2>>
    /\ last.op = "process_dtc_frame"
    /\ Len(active_dtcs) = 1
    /\ last.n_active = 1
    /\ active_dtcs[1].oc = 3
    /\ active_dtcs[1].cm = 0

(***************************************************************************)
(* Timestamps that step back: the differences of remove_inactive_dtcs and  *)
(* of the promotion loop are uint32_t differences.                         *)
(***************************************************************************)
Kept(list, d) == \E j \in 1..Len(list) : list[j] = d

\* C31 (no timestamp underflow): a check_dtcs(ts) that obtains the gate keeps every
\* candidate with first_seen > ts and every active DTC with last_seen > ts, and
\* an observation at ts leaves no candidate with first_seen > ts that has the
\* read count while the active list has room.
C31_NoUnderflow ==
    [][\A timestamp \in Times :
           /\ (TickStep(timestamp) /\ last'.took) =>
                  /\ \A i \in 1..Len(candidate_dtcs) :
                         candidate_dtcs[i].first_seen > timestamp =>
                             Kept(candidate_dtcs', candidate_dtcs[i])
                  /\ \A i \in 1..Len(active_dtcs) :
                         active_dtcs[i].last_seen > timestamp =>
                             Kept(active_dtcs', active_dtcs[i])
           /\ (\E f \in Frames : FrameStep(f, timestamp) /\ last'.took) =>
                  \A i \in 1..Len(candidate_dtcs') :
                      ~(/\ candidate_dtcs'[i].first_seen > timestamp
                        /\ candidate_dtcs'[i].read_count >= dtcParseCfg.dtc_active_read_count
                        /\ Len(active_dtcs') < MAX_ACTIVE_DTCS)]_vars

\* Under the default window of 10 a tick no later than MaxTime has removed a
\* candidate: its first_seen was later than the tick.
C31_Witness ==
    /\ last.op = "check_dtcs"
    /\ last.took
    /\ dtcParseCfg = DefaultCfg
    /\ last.n_candidate = 1
    /\ candidate_dtcs = << >>

\* C32 (filter in place): a check_dtcs(ts) that obtains the gate leaves exactly the
\* candidates with ts - first_seen <= dtc_active_time_window and the active DTCs
\* with ts - last_seen <= debounce_dtc_inactive_time, in their order and with
\* their fields; an observation leaves exactly the candidates that are not
\* eligible, in their order and with their fields.
C32_FilterInPlace ==
    [][/\ (TickStep(MaxTime) /\ last'.took) =>
              LET InWindow(d) == U32DiffLe(MaxTime, d.first_seen,
                                           dtcParseCfg.dtc_active_time_window)
                  Fresh(d) == U32DiffLe(MaxTime, d.last_seen,
                                        dtcParseCfg.debounce_dtc_inactive_time)
              IN  /\ candidate_dtcs' = SelectSeq(candidate_dtcs, InWindow)
                  /\ active_dtcs' = SelectSeq(active_dtcs, Fresh)
       /\ \A f \in FramesFull, timestamp \in TimesFull :
              (FrameStep(f, timestamp) /\ last'.took) =>
                  LET seen == Observe(Cur.t, timestamp, DecodeObs(f.id, f.data, 2)).cand
                      Eligible(d) ==
                          /\ U32DiffLe(timestamp, d.first_seen,
                                       dtcParseCfg.dtc_active_time_window)
                          /\ d.read_count >= dtcParseCfg.dtc_active_read_count
                      Stays(d) == ~Eligible(d)
                  IN  /\ candidate_dtcs' = SelectSeq(seen, Stays)
                      /\ \A i \in 1..Len(candidate_dtcs') : Stays(candidate_dtcs'[i])]_vars

\* A tick found two candidates and removed both: adjacent entries, the one at
\* index 0 included.
C32_Witness ==
    /\ last.op = "check_dtcs"
    /\ last.took
    /\ last.n_candidate = 2
    /\ candidate_dtcs = << >>

\* A tick found two active DTCs and removed both.
C32_TwoAged ==
    /\ last.op = "check_dtcs"
    /\ last.n_active = 2
    /\ active_dtcs = << >>

\* One observation has promoted two candidates.
C32_TwoPromoted ==
    /\ last.op = "process_dtc_frame"
    /\ last.n_candidate = 2
    /\ last.n_active = 0
    /\ candidate_dtcs = << >>
    /\ Len(active_dtcs) = 2

\* A tick removed the candidate at index 0 and kept the one behind it.
C32_HeadOnly ==
    /\ last.op = "check_dtcs"
    /\ last.n_candidate = 2
    /\ Len(candidate_dtcs) = 1
    /\ candidate_dtcs[1].first_seen = MaxTime

\* C33 (promotion into a full active list): when an observation finds
\* MAX_ACTIVE_DTCS active DTCs, the active list is afterwards as the refresh of
\* the observed record left it, and every candidate that satisfies the promotion
\* rule is afterwards in neither list; and whenever an observation adds a record
\* to the active list the changed flag is set afterwards.
C33_FullActive ==
    [][\A f \in FramesFull, timestamp \in TimesFull :
           (FrameStep(f, timestamp) /\ last'.took) =>
               LET seen == Observe(Cur.t, timestamp, DecodeObs(f.id, f.data, 2))
                   Eligible(d) ==
                       /\ U32DiffLe(timestamp, d.first_seen,
                                    dtcParseCfg.dtc_active_time_window)
                       /\ d.read_count >= dtcParseCfg.dtc_active_read_count
               IN  /\ Len(active_dtcs) = MAX_ACTIVE_DTCS =>
                          /\ active_dtcs' = seen.act
                          /\ \A i \in 1..Len(seen.cand) :
                                 Eligible(seen.cand[i]) =>
                                     Ident(seen.cand[i]) \notin
                                         Idents(candidate_dtcs') \cup Idents(active_dtcs')
                   /\ Len(active_dtcs') > Len(active_dtcs) => changed_dtc_list']_vars

\* The DTC of source 0x04 was a candidate when a frame found the two DTCs of
\* source 0x03 active; it is in neither list now.
C33_Witness ==
    /\ last.op = "process_dtc_frame"
    /\ last.took
    /\ last.n_active = MAX_ACTIVE_DTCS
    /\ last.n_candidate = 1
    /\ candidate_dtcs = << >>
    /\ Idents(active_dtcs) = {<<3, 1, 5>>, <<3, 2, 5>>}

\* C34 (fragment writes stay inside data[]): for every TP.DT fragment that finds
\* its slot and carries the packet number the slot expects, the 7 bytes copied
\* at offset (packet_number - 1) * 7 end no later than data[MAX_MULTIFRAME_DATA_SIZE - 1],
\* and no store outside data[] is ever recorded.
C34_WritesInside ==
    [][(/\ last'.op = "process_dtc_frame"
        /\ IsTpDt(Delivered)
        /\ find_multi_frame_message(multi_frame_messages, MessageId(Delivered)) # 0) =>
          LET m == find_multi_frame_message(multi_frame_messages, MessageId(Delivered))
              packet_number == Delivered.data[1]
          IN  /\ packet_number = multi_frame_messages[m].received_packets + 1 =>
                     /\ packet_number >= 1
                     /\ (packet_number - 1) * 7 + 7 <= MAX_MULTIFRAME_DATA_SIZE
              /\ mem_fault' = NoFault]_vars

\* The third fragment of the message of MAX_MULTIFRAME_DATA_SIZE bytes, held in the
\* last slot, was stored: its last byte lies past the end of the table.
C34_Witness ==
    /\ hist = <<DtZ3>>
    /\ last.op = "process_dtc_frame"
    /\ mem_fault.kind = "past_table"
    /\ mem_fault.spill = {<<0, 255>>}
    /\ multi_frame_messages[MAX_CONCURRENT_MULTIFRAME].received_packets = 3

\* The part of C34 that holds: a fragment numbered 0 or out of turn stores nothing.
C34_OutOfTurn ==
    [][(/\ last'.op = "process_dtc_frame"
        /\ IsTpDt(Delivered)
        /\ find_multi_frame_message(multi_frame_messages, MessageId(Delivered)) # 0) =>
          LET m == find_multi_frame_message(multi_frame_messages, MessageId(Delivered))
          IN  Delivered.data[1] # multi_frame_messages[m].received_packets + 1 =>
                  /\ mem_fault' = mem_fault
                  /\ multi_frame_messages' = [multi_frame_messages EXCEPT ![m] = FreeSlot]]_vars

\* C35 (no record with SPN 0): no record of the candidate list or of the active
\* list has spn = 0.
C35_NoSpnZero ==
    /\ \A i \in 1..Len(candidate_dtcs) : candidate_dtcs[i].spn # 0
    /\ \A i \in 1..Len(active_dtcs) : active_dtcs[i].spn # 0

\* The second packet completed a payload of two records, SPN 1 / FMI 5 and four
\* zero bytes: both are candidates.
C35_Witness ==
    /\ hist = <<DtX2>>
    /\ last.op = "process_dtc_frame"
    /\ last.n_candidate = 0
    /\ IdSeq(candidate_dtcs) = << <<0, 1, 5>>, <<0, 0, 0>> >>

\* The record with SPN 0 has been promoted.
C35_Promoted == \E i \in 1..Len(active_dtcs) : active_dtcs[i].spn = 0

\* The part of C35 that holds: a single frame adds no record with SPN 0.
C35_SingleFrame ==
    [][(last'.op = "process_dtc_frame" /\ IsDm1(Delivered)) =>
          /\ \A i \in 1..Len(candidate_dtcs') :
                 candidate_dtcs'[i].spn = 0 => Kept(candidate_dtcs, candidate_dtcs'[i])
          /\ \A i \in 1..Len(active_dtcs') :
                 active_dtcs'[i].spn = 0 =>
                     Kept(active_dtcs, active_dtcs'[i]) \/ Kept(candidate_dtcs, active_dtcs'[i])]_vars

C36_NeverComplete ==
    \E i \in SlotIndexes :
        /\ multi_frame_messages[i].message_id # 0
        /\ multi_frame_messages[i].num_packets = 0
        /\ multi_frame_messages[i].received_packets = 2

====
